---- MODULE Spec2Model ----
(***************************************************************************)
(* Tab Vault: the session store, the session lifecycle operations, the     *)
(* backup/versioning operations and the crash-recovery service, as a       *)
(* state machine over chrome.storage.local, chrome.storage.session and     *)
(* chrome.alarms.                                                          *)
(*                                                                         *)
(* Abstractions: timestamps are not modelled (lastAccessedAt and the last  *)
(* backup time are "set" or "not set"); a URL string is modelled by what   *)
(* `new URL(url)` makes of it; an LZ-string blob is modelled as a wrapper  *)
(* around the value it encodes; generateId() is a counter.                 *)
(***************************************************************************)
EXTENDS Integers, Sequences, FiniteSets, TLC

\* ------------------------------------------------------------------ bounds

\* generateId() calls in the session-lifecycle specification
MaxIds == 3
\* tabs in one browser window / one imported session
MaxTabs == 2
\* restoreSession calls (the restore counters are unbounded in the code)
MaxRestores == 1
MaxVersion == 3
\* upper end of the emergency-list maxima tried
MaxEmergencyMax == 3
\* emergency backups taken in the emergency-list specification
MaxEmergencySaves == 5
\* createVersion calls beyond MAX_VERSIONS_PER_SESSION in the versioning specification
ExtraVersions == 2
MaxVersionedSessions == 2
MaxMessageIds == 2
MaxMessageVersion == 2
\* tabs that lazy restoring creates, and activation callbacks in flight at once
MaxLazyTabs == 2
MaxActivations == 2
\* createSession / restoreSession calls suspended at once
MaxWriters == 2
\* tabs in a list handed to the compression utilities
MaxJsonTabs == 2
\* saveSession / deleteSession calls of the storage service suspended at once
MaxStoreCalls == 2

\* ------------------------------------------------------- program constants

MAX_VERSIONS_PER_SESSION == 10
DefaultCompressionThreshold == 50
DefaultMaxEmergencySessions == 5
DefaultAutoSaveInterval == 5
\* sendMessage of the manager page: attempts, and the backoff unit in ms
maxRetries == 3
BackoffUnit == 100

\* ---------------------------------------------------------------- helpers

Min(a, b) == IF a <= b THEN a ELSE b

\* Array.prototype.slice(0, n) for n >= 0
Take(s, n) == SubSeq(s, 1, Min(n, Len(s)))

\* all sequences over S of length at most n
SeqsUpTo(S, n) == UNION {[1..k -> S] : k \in 0..n}

\* ------------------------------------------------------------------- URLs

\* A URL string, by the result of `new URL(url)`: whether it parses, its
\* protocol, whether it carries a username/password, and its hostname.
Url(parses, protocol, cred, host) ==
    [parses |-> parses, protocol |-> protocol, cred |-> cred, host |-> host]

\* hostnames and domain patterns are sequences of characters
HostA == <<"a", ".", "c">>
HostB == <<"b", ".", "o">>
HostC == <<"c", ".", "n">>

UrlPlain == Url(TRUE, "https:", FALSE, HostA)
UrlCred == Url(TRUE, "https:", TRUE, HostA)
UrlOther == Url(TRUE, "http:", FALSE, HostB)
UrlScript == Url(TRUE, "javascript:", FALSE, <<>>)
UrlFtp == Url(TRUE, "ftp:", FALSE, HostC)
UrlGarbage == Url(FALSE, "", FALSE, <<>>)

\* the null that sanitizeUrl returns
NullUrl == Url(FALSE, "null", FALSE, <<>>)

ALLOWED_PROTOCOLS == {"http:", "https:", "chrome:", "chrome-extension:"}
BLOCKED_PROTOCOLS == {"javascript:", "data:", "file:", "vbscript:", "about:"}

isValidUrlNoAllowList(url) ==
    /\ url.parses
    /\ url.protocol \notin BLOCKED_PROTOCOLS

isValidUrl(url) ==
    /\ url.parses
    /\ url.protocol \notin BLOCKED_PROTOCOLS
    /\ url.protocol \in ALLOWED_PROTOCOLS

sanitizeUrlKeepCredentials(url) == IF ~isValidUrl(url) THEN NullUrl ELSE url

\* null unless valid; else the URL with username and password blanked
sanitizeUrl(url) == IF ~isValidUrl(url) THEN NullUrl ELSE [url EXCEPT !.cred = FALSE]

Unknown == <<"?">>

extractDomain(url) == IF url.parses THEN url.host ELSE Unknown

\* String.prototype.toLowerCase, character by character
LowerChar(c) == IF c = "A" THEN "a" ELSE IF c = "C" THEN "c" ELSE c
toLowerCase(s) == [i \in 1..Len(s) |-> LowerChar(s[i])]

\* String.prototype.trim
RECURSIVE TrimLeft(_)
TrimLeft(s) == IF s # <<>> /\ Head(s) = " " THEN TrimLeft(Tail(s)) ELSE s
RECURSIVE TrimRight(_)
TrimRight(s) ==
    IF s # <<>> /\ s[Len(s)] = " " THEN TrimRight(SubSeq(s, 1, Len(s) - 1)) ELSE s
trim(s) == TrimRight(TrimLeft(s))

startsWith(s, p) == Len(p) <= Len(s) /\ SubSeq(s, 1, Len(p)) = p
endsWith(s, p) == Len(p) <= Len(s) /\ SubSeq(s, Len(s) - Len(p) + 1, Len(s)) = p
\* String.prototype.slice(n) for n >= 0
sliceFrom(s, n) == SubSeq(s, n + 1, Len(s))

matchesDomainPattern(url, pattern) ==
    LET domain == toLowerCase(url.host)
        normalizedPattern == trim(toLowerCase(pattern))
        suffix == sliceFrom(normalizedPattern, 2)
    IN  /\ url.parses
        /\ \/ domain = normalizedPattern
           \/ /\ startsWith(normalizedPattern, <<"*", ".">>)
              /\ (endsWith(domain, suffix) \/ domain = sliceFrom(suffix, 1))

shouldExcludeUrl(url, excludedDomains) ==
    \E i \in 1..Len(excludedDomains) : matchesDomainPattern(url, excludedDomains[i])

\* ------------------------------------------------------------------- tabs

\* chrome.tabs.Tab as seen by capture, and a tab of an import file: url, title
RawTab(url, title) == [url |-> url, title |-> title]

TabPlain == RawTab(UrlPlain, "T")
TabCred == RawTab(UrlCred, "T")
TabOther == RawTab(UrlOther, "T")
TabUntitled == RawTab(UrlOther, "")
TabScript == RawTab(UrlScript, "T")
TabFtp == RawTab(UrlFtp, "T")
TabGarbage == RawTab(UrlGarbage, "T")

RawTabs == {TabPlain, TabCred, TabOther, TabUntitled, TabScript, TabFtp, TabGarbage}

\* the tab lists chrome.tabs.query can return
Windows == SeqsUpTo(RawTabs, MaxTabs)

\* windows of valid, credential-free tabs only
SimpleWindows == SeqsUpTo({TabPlain, TabOther}, MaxTabs)

\* ------------------------------------------------------------ compression

\* the value of an absent optional string field (compressedTabs: undefined)
Undefined == <<>>

\* LZString.compressToUTF16(JSON.stringify(tabs)): a blob that decodes to tabs
compressTabs(tabs) == <<tabs>>

\* a blob that is not a compressed value decodes to []
decompressTabs(blob) == IF Len(blob) = 1 THEN blob[1] ELSE <<>>

compressSession(session) == <<session>>

\* null is modelled as the empty tuple
decompressSession(blob) == IF Len(blob) = 1 THEN blob[1] ELSE <<>>

shouldCompress(tabs, threshold) == Len(tabs) >= threshold

\* ------------------------------------------------------------------ state

VARIABLES
    sessions,      \* StorageKey.SESSIONS: id -> Session
    metadata,      \* StorageKey.SESSION_METADATA: list of SessionMetadata
    emergency,     \* StorageKey.EMERGENCY_SESSIONS: list of Session
    versions,      \* StorageKey.SESSION_VERSIONS: session id -> list of SessionVersion
    settings,      \* StorageKey.SETTINGS merged over DEFAULT_SETTINGS
    statistics,    \* StorageKey.STATISTICS
    crashMarker,   \* chrome.storage.local potential_crash_detected
    lastBackup,    \* chrome.storage.local last_emergency_backup is set
    runningFlag,   \* chrome.storage.session crash_detection_flag
    alarms,        \* chrome.alarms: the scheduled alarms
    nextId,        \* generateId(): the next fresh id
    emLog,         \* history: ids of the emergency sessions saved, newest first
    lastOp,        \* history: the operation that ran last
    folders,       \* StorageKey.FOLDERS: list of folder ids
    searchIndex,   \* SearchService.sessionIndex: null or the metadata it was built from
    reply,         \* history: what the last entry point handed back to its caller
    pendingLazyUrl, \* chrome.storage.session lazy_<tabId>: the stashed url, if any
    activations,   \* the onActivated callbacks in flight, each at its await
    delivered,     \* history: per lazy tab created, the calls that returned its url
    inFlight,      \* the createSession and restoreSession calls past their statistics read
    sender,        \* the manager page's sendMessage call: its loop position and history
    calc,          \* the last call of a pure utility function: name, input, output
    storeCalls,    \* the saveSession and deleteSession calls suspended at an await
    browser        \* the browser: windows, tabs and tab groups that restoreTabs created

storeVars == <<sessions, metadata, emergency, versions, settings, statistics>>
crashVars == <<crashMarker, lastBackup, runningFlag, alarms>>
\* the state above the session, backup and crash services
\* the state of the calls that are suspended at an await
asyncVars == <<pendingLazyUrl, activations, delivered, inFlight>>
\* the state outside the background services: pages and the browser
outerVars == <<sender, calc, storeCalls, browser>>
auxVars == <<folders, searchIndex, reply, asyncVars, outerVars>>
vars == <<storeVars, crashVars, nextId, emLog, lastOp, auxVars>>

\* the operation that ran last, the id it was about, a detail of it, how it
\* completed ("ok" or the message of the error it threw) and the call that
\* was made to fail in it ("none" when every call succeeded)
OpR(op, id, info, result, fault) ==
    [op |-> op, id |-> id, info |-> info, result |-> result, fault |-> fault]
Op(op, id, info) == OpR(op, id, info, "ok", "none")
Did(op, id, info) == lastOp' = Op(op, id, info)
DidR(op, id, info, result, fault) == lastOp' = OpR(op, id, info, result, fault)

\* what an entry point handed back: the channel it came through, the
\* operation, the number of responses sent, and the fields of the result
Reply(via, type, sent, success, error, sessionsImported, foldersImported, errors) ==
    [ via |-> via, type |-> type, sent |-> sent, success |-> success, error |-> error,
      sessionsImported |-> sessionsImported, foldersImported |-> foldersImported,
      errors |-> errors ]

NoReply == Reply("none", "none", 0, FALSE, "", 0, 0, 0)

\* the tab ids lazy restoring creates, the activation callbacks and the
\* session calls that can be suspended at once
LazyTabs == 1..MaxLazyTabs
Callbacks == 1..MaxActivations
Writers == 1..MaxWriters

\* an activation callback: where it stands, its tab, what its get returned
Activation(pc, tab, result) == [pc |-> pc, tab |-> tab, result |-> result]
Idle == Activation("idle", 0, <<>>)

\* a suspended session call: its operation, the statistics it read, the
\* number of tabs it is about to add
Suspended(op, stats, tabs) == [op |-> op, stats |-> stats, tabs |-> tabs]
NotRunning == Suspended("none", <<>>, 0)

\* a sendMessage call of the manager page: its message type, where its loop
\* stands, the loop counter, the responses its attempts got, the delays it
\* waited and lastError
Sending(type, pc, attempt, responses, waits, lastError) ==
    [ type |-> type, pc |-> pc, attempt |-> attempt, responses |-> responses,
      waits |-> waits, lastError |-> lastError ]
NotSending == Sending("none", "idle", 0, <<>>, <<>>, "")

\* a saveSession or deleteSession call of the storage service, or an
\* UPDATE_SETTINGS handler, in flight: the operation, its argument, where it
\* stands, and what it holds after its reads (the sessions map and the
\* metadata list, or the settings)
StoreCallers == 1..MaxStoreCalls
StoreCall(op, pc, arg, all, md) == [op |-> op, pc |-> pc, arg |-> arg, all |-> all, md |-> md]
NoStoreCall == StoreCall("none", "idle", 0, <<>>, <<>>)

\* a restoreTabs call and the browser it drives: where the call stands, its
\* arguments, the positions of sortedTabs still to visit, the positions
\* chrome.tabs.create was called for, the windows, tabs and tab groups
\* created, groupMapping, the calls that rejected, createdTabIds
EmptyBrowser ==
    [ pc |-> "idle", input |-> <<>>, options |-> <<>>, queue |-> <<>>,
      attempts |-> <<>>, windows |-> 0, tabs |-> <<>>, groups |-> <<>>,
      groupMapping |-> {}, failed |-> <<>>, createdTabIds |-> <<>> ]

\* a call of a utility function
Call(fn, input, output) == [fn |-> fn, input |-> input, output |-> output]
NoCall == Call("none", <<>>, [threw |-> FALSE, value |-> <<>>])

InitAux ==
    /\ folders = <<>>
    /\ searchIndex = <<>>
    /\ reply = NoReply
    /\ pendingLazyUrl = [tab \in LazyTabs |-> Undefined]
    /\ activations = [call \in Callbacks |-> Idle]
    /\ delivered = <<>>
    /\ inFlight = [call \in Writers |-> NotRunning]
    /\ sender = NotSending
    /\ calc = NoCall
    /\ storeCalls = [call \in StoreCallers |-> NoStoreCall]
    /\ browser = EmptyBrowser

DEFAULT_SETTINGS ==
    [ autoSaveInterval |-> DefaultAutoSaveInterval,
      maxEmergencySessions |-> DefaultMaxEmergencySessions,
      useCompression |-> TRUE,
      compressionThreshold |-> DefaultCompressionThreshold,
      excludedDomains |-> <<>>,
      detectDuplicates |-> TRUE,
      crashRecoveryEnabled |-> TRUE ]

\* getStatistics() of an empty store
EmptyStatistics ==
    [ totalSessionsSaved |-> 0, totalSessionsRestored |-> 0,
      totalTabsSaved |-> 0, totalTabsRestored |-> 0 ]

Init ==
    /\ sessions = <<>>
    /\ metadata = <<>>
    /\ emergency = <<>>
    /\ versions = <<>>
    /\ settings = DEFAULT_SETTINGS
    /\ statistics = EmptyStatistics
    /\ crashMarker = FALSE
    /\ lastBackup = FALSE
    /\ runningFlag = "absent"
    /\ alarms = {}
    /\ nextId = 1
    /\ emLog = <<>>
    /\ lastOp = Op("none", 0, 0)
    /\ InitAux

\* --------------------------------------------------------- StorageService

\* a Session record
Session(id, tabs, compressedTabs, isCompressed, tabCount, version, isEmergency, lastAccessedAt) ==
    [ id |-> id, tabs |-> tabs, compressedTabs |-> compressedTabs,
      isCompressed |-> isCompressed, tabCount |-> tabCount, version |-> version,
      isEmergency |-> isEmergency, lastAccessedAt |-> lastAccessedAt ]

\* the SessionMetadata that saveSession derives from a session
sessionMeta(session) ==
    [ id |-> session.id,
      tabCount |-> Len(session.tabs),
      version |-> session.version,
      isEmergency |-> session.isEmergency,
      lastAccessedAt |-> session.lastAccessedAt ]

\* sessions[session.id] = session
PutSession(all, session) ==
    [i \in DOMAIN all \cup {session.id} |-> IF i = session.id THEN session ELSE all[i]]

\* delete sessions[id]
RemoveSession(all, id) == [i \in DOMAIN all \ {id} |-> all[i]]

\* metadata.findIndex(m => m.id === id): 0 when there is none
FindIndex(md, id) ==
    IF \E i \in 1..Len(md) : md[i].id = id
    THEN CHOOSE i \in 1..Len(md) : md[i].id = id /\ \A j \in 1..(i - 1) : md[j].id # id
    ELSE 0

PutMetadataAlwaysPrepend(md, session) == <<sessionMeta(session)>> \o md

\* replace in place if present, else unshift
PutMetadata(md, session) ==
    IF FindIndex(md, session.id) > 0
    THEN [md EXCEPT ![FindIndex(md, session.id)] = sessionMeta(session)]
    ELSE <<sessionMeta(session)>> \o md

DropMetadata(md, id) == SelectSeq(md, LAMBDA m : m.id # id)

\* saveSession: the full record and its metadata entry, in one write
saveSession(session) ==
    /\ sessions' = PutSession(sessions, session)
    /\ metadata' = PutMetadata(metadata, session)

\* Array.prototype.slice(0, n), n of either sign
slice0(s, n) ==
    IF n >= 0 THEN Take(s, n)
    ELSE IF Len(s) + n > 0 THEN SubSeq(s, 1, Len(s) + n) ELSE <<>>

EmergencyListUntrimmed(list, session, maxSessions) == <<session>> \o list

\* saveEmergencySession: unshift, then keep the first maxSessions
EmergencyList(list, session, maxSessions) == slice0(<<session>> \o list, maxSessions)

\* saveSettings: the stored settings with the given keys overwritten
MergedSettings(current, payload) ==
    [k \in DOMAIN current \cup DOMAIN payload |->
        IF k \in DOMAIN payload THEN payload[k] ELSE current[k]]

\* ------------------------------------------------------------- TabService

\* TabData built from a browser tab
TabData(tab) ==
    [ url |-> sanitizeUrl(tab.url),
      title |-> IF tab.title = "" THEN "Untitled" ELSE tab.title ]

processTabsForCaptureUnfiltered(tabs, st) ==
    [i \in 1..Len(tabs) |-> TabData(tabs[i])]

\* capture: invalid and excluded URLs skipped, the rest sanitized
processTabsForCapture(tabs, st) ==
    LET kept == SelectSeq(tabs, LAMBDA tab :
                    /\ isValidUrl(tab.url)
                    /\ ~shouldExcludeUrl(tab.url, st.excludedDomains)
                    /\ sanitizeUrl(tab.url) # NullUrl)
    IN  [i \in 1..Len(kept) |-> TabData(kept[i])]

\* --------------------------------------------------------- SessionService

\* the session createSession, mergeSessions and splitSession assemble
NewSession(id, tabs, st) ==
    LET shouldUseCompression ==
            st.useCompression /\ shouldCompress(tabs, st.compressionThreshold)
    IN  Session(id,
                IF shouldUseCompression THEN <<>> ELSE tabs,
                IF shouldUseCompression THEN compressTabs(tabs) ELSE Undefined,
                shouldUseCompression, Len(tabs), 1, FALSE, FALSE)

\* sessionService.getSession of a stored session: tabs decompressed if needed
getSession(id) ==
    LET session == sessions[id]
    IN  IF session.isCompressed /\ session.compressedTabs # Undefined
        THEN [session EXCEPT !.tabs = decompressTabs(session.compressedTabs)]
        ELSE session

AbortAfterCount(op, id, info, message) ==
    /\ statistics' = [statistics EXCEPT !.totalSessionsSaved = @ + 1]
    /\ UNCHANGED <<sessions, metadata, emergency, versions, settings,
                   crashVars, nextId, emLog>>
    /\ DidR(op, id, info, message, "none")

\* an operation that throws before its first write
Abort(op, id, info, message) ==
    /\ UNCHANGED <<storeVars, crashVars, nextId, emLog>>
    /\ DidR(op, id, info, message, "none")

CreateSession(window) ==
    LET tabs == processTabsForCapture(window, settings)
        session == NewSession(nextId, tabs, settings)
    IN  IF Len(tabs) = 0
        THEN Abort("createSession", 0, Len(window), "No valid tabs to save")
        ELSE /\ saveSession(session)
             /\ statistics' = [statistics EXCEPT
                     !.totalSessionsSaved = @ + 1,
                     !.totalTabsSaved = @ + Len(tabs)]
             /\ nextId' = nextId + 1
             /\ UNCHANGED <<emergency, versions, settings, crashVars, emLog>>
             /\ Did("createSession", nextId, Len(window) - Len(tabs))

Recompressed(session, st) ==
    IF st.useCompression /\ shouldCompress(session.tabs, st.compressionThreshold)
    THEN [session EXCEPT !.compressedTabs = compressTabs(session.tabs),
                         !.tabs = <<>>,
                         !.isCompressed = TRUE]
    ELSE session

\* updateSession; for an unknown id it returns null and writes nothing
UpdateSession(id) ==
    IF id \notin DOMAIN sessions
    THEN Abort("updateSession", id, 0 - 1, "ok")
    ELSE /\ LET session == [getSession(id) EXCEPT !.version = @ + 1]
            IN  saveSession(Recompressed(session, settings))
         /\ UNCHANGED <<emergency, versions, settings, statistics, crashVars, nextId, emLog>>
         /\ Did("updateSession", id, 0)

DeleteSession(id) ==
    /\ sessions' = RemoveSession(sessions, id)
    /\ metadata' = DropMetadata(metadata, id)
    /\ UNCHANGED <<emergency, versions, settings, statistics, crashVars, nextId, emLog>>
    /\ Did("deleteSession", id, 0)

\* the urls of a tab list
UrlsOf(tabs) == {tabs[i].url : i \in 1..Len(tabs)}

\* restoreSession; created is the number of tabs restoreTabs managed to create
\* the tabs restoreSession hands to restoreTabs while window is open
TabsToRestore(session, window) ==
    LET currentUrls == UrlsOf(processTabsForCapture(window, settings))
    IN  IF settings.detectDuplicates
        THEN SelectSeq(session.tabs, LAMBDA t : t.url \notin currentUrls)
        ELSE session.tabs

RestoreSession(id, window, created) ==
    IF id \notin DOMAIN sessions
    THEN created = 0 /\ Abort("restoreSession", id, 0, "Session not found")
    ELSE /\ LET session == getSession(id)
            IN  /\ created \in 0..Len(TabsToRestore(session, window))
                /\ saveSession([session EXCEPT !.lastAccessedAt = TRUE])
                /\ statistics' = [statistics EXCEPT
                        !.totalSessionsRestored = @ + 1,
                        !.totalTabsRestored = @ + created]
         /\ UNCHANGED <<emergency, versions, settings, crashVars, nextId, emLog>>
         /\ Did("restoreSession", id, created)

DuplicateSession(id) ==
    IF id \notin DOMAIN sessions
    THEN Abort("duplicateSession", id, 0, "Session not found")
    ELSE /\ saveSession([getSession(id) EXCEPT
                 !.id = nextId, !.lastAccessedAt = FALSE,
                 !.isEmergency = FALSE, !.version = 1])
         /\ nextId' = nextId + 1
         /\ UNCHANGED <<emergency, versions, settings, statistics, crashVars, emLog>>
         /\ Did("duplicateSession", id, nextId)

\* (a merge that skips no tab)
UnseenTabsKeepAll(tabs, seen) == tabs

\* tabs whose url is not among seen, each url once, in order
RECURSIVE UnseenTabs(_, _)
UnseenTabs(tabs, seen) ==
    IF tabs = <<>> THEN <<>>
    ELSE IF Head(tabs).url \in seen THEN UnseenTabs(Tail(tabs), seen)
         ELSE <<Head(tabs)>> \o UnseenTabs(Tail(tabs), seen \cup {Head(tabs).url})

\* the tab list mergeSessions collects over ids, absent ids skipped
RECURSIVE MergedTabs(_, _)
MergedTabs(ids, acc) ==
    IF ids = <<>> THEN acc
    ELSE IF Head(ids) \in DOMAIN sessions
         THEN MergedTabs(Tail(ids),
                         acc \o UnseenTabs(getSession(Head(ids)).tabs, UrlsOf(acc)))
         ELSE MergedTabs(Tail(ids), acc)

MergeSessions(ids) ==
    IF Len(ids) < 2
    THEN Abort("mergeSessions", 0, Len(ids), "Need at least 2 sessions to merge")
    ELSE /\ saveSession(NewSession(nextId, MergedTabs(ids, <<>>), settings))
         /\ nextId' = nextId + 1
         /\ UNCHANGED <<emergency, versions, settings, statistics, crashVars, emLog>>
         /\ Did("mergeSessions", nextId, Len(ids))

\* (a split that sees the first tab's domain only)
DomainsOfFirstTab(tabs, seen) ==
    IF tabs = <<>> THEN <<>> ELSE <<extractDomain(Head(tabs).url)>>

\* the distinct domains of a tab list, in order of first occurrence
RECURSIVE DomainsOf(_, _)
DomainsOf(tabs, seen) ==
    IF tabs = <<>> THEN <<>>
    ELSE IF extractDomain(Head(tabs).url) \in seen THEN DomainsOf(Tail(tabs), seen)
         ELSE <<extractDomain(Head(tabs).url)>>
              \o DomainsOf(Tail(tabs), seen \cup {extractDomain(Head(tabs).url)})

\* splitSession's loop: one session saved per domain, ids from firstId on
RECURSIVE SplitSaved(_, _, _, _, _)
SplitSaved(domains, tabs, firstId, all, md) ==
    IF domains = <<>> THEN <<all, md>>
    ELSE LET group == SelectSeq(tabs, LAMBDA t : extractDomain(t.url) = Head(domains))
             session == NewSession(firstId, group, settings)
         IN  SplitSaved(Tail(domains), tabs, firstId + 1,
                        PutSession(all, session), PutMetadata(md, session))

SplitSession(id) ==
    IF id \notin DOMAIN sessions
    THEN Abort("splitSession", id, 0, "Session not found")
    ELSE /\ LET original == getSession(id)
                domains == DomainsOf(original.tabs, {})
                saved == SplitSaved(domains, original.tabs, nextId, sessions, metadata)
            IN  /\ sessions' = saved[1]
                /\ metadata' = saved[2]
                /\ nextId' = nextId + Len(domains)
         /\ UNCHANGED <<emergency, versions, settings, statistics, crashVars, emLog>>
         /\ Did("splitSession", id, nextId' - nextId)

\* (an emergency session built under the compression policy)
EmergencySessionByPolicy(id, tabs, st) ==
    [NewSession(id, tabs, st) EXCEPT !.isEmergency = TRUE]

\* createEmergencySession: all windows captured, never compressed
EmergencySession(id, tabs, st) ==
    Session(id, tabs, Undefined, FALSE, Len(tabs), 1, TRUE, FALSE)

CreateEmergencySession(window) ==
    LET tabs == processTabsForCapture(window, settings)
        session == EmergencySession(nextId, tabs, settings)
    IN  /\ Len(tabs) > 0
        /\ emergency' = EmergencyList(emergency, session, settings.maxEmergencySessions)
        /\ emLog' = <<session.id>> \o emLog
        /\ nextId' = nextId + 1

\* ---------------------------------------------------------- BackupService

\* a session of an import file: id (0 when missing), tabs, version (0 when
\* missing) and whatever compressedTabs the file carries
FileSession(id, tabs, version, compressedTabs) ==
    [ id |-> id, tabs |-> tabs, version |-> version, compressedTabs |-> compressedTabs ]

\* the tabs of an imported session that validateAndSanitizeSession keeps
ValidTabs(tabs) == SelectSeq(tabs, LAMBDA tab : isValidUrl(tab.url) /\ tab.title # "")

ValidTabsUnfiltered(tabs) == tabs

\* validateAndSanitizeSession of a session it accepts: { ...session } with
\* the checked fields written over it
validateAndSanitizeSession(fs) ==
    MergedSettings(fs,
        Session(fs.id, ValidTabs(fs.tabs), fs.compressedTabs, FALSE,
                Len(ValidTabs(fs.tabs)), IF fs.version = 0 THEN 1 ELSE fs.version,
                FALSE,
                IF "lastAccessedAt" \in DOMAIN fs THEN fs.lastAccessedAt ELSE FALSE))

\* importFromJSON's loop over data.sessions: <<sessions, metadata, next id>>
RECURSIVE Imported(_, _, _, _, _)
Imported(file, overwriteExisting, all, md, fresh) ==
    IF file = <<>> THEN <<all, md, fresh>>
    ELSE IF Head(file).id = 0 \/ Len(ValidTabs(Head(file).tabs)) = 0
         THEN Imported(Tail(file), overwriteExisting, all, md, fresh)
         ELSE LET validated == validateAndSanitizeSession(Head(file))
                  collides == validated.id \in DOMAIN all /\ ~overwriteExisting
                  session == IF collides THEN [validated EXCEPT !.id = fresh]
                             ELSE validated
              IN  Imported(Tail(file), overwriteExisting,
                           PutSession(all, session), PutMetadata(md, session),
                           IF collides THEN fresh + 1 ELSE fresh)

\* importFromJSON of a well-formed envelope; fileSettings is data.settings when
\* importSettings is requested and the file has settings, else the empty record
ImportFromJSON(file, overwriteExisting, fileSettings) ==
    LET done == Imported(file, overwriteExisting, sessions, metadata, nextId)
    IN  /\ sessions' = done[1]
        /\ metadata' = done[2]
        /\ nextId' = done[3]
        /\ settings' = MergedSettings(settings, fileSettings)
        /\ UNCHANGED <<emergency, versions, statistics, crashVars, emLog>>
        /\ Did("importFromJSON", 0, Len(file))

\* versions[sessionId] || []
VersionsOf(all, sessionId) == IF sessionId \in DOMAIN all THEN all[sessionId] ELSE <<>>

VersionHistoryUntrimmed(history, version) == <<version>> \o history

\* unshift, then keep the first MAX_VERSIONS_PER_SESSION
VersionHistory(history, version) ==
    slice0(<<version>> \o history, MAX_VERSIONS_PER_SESSION)

CreateVersion(sessionId) ==
    /\ sessionId \in DOMAIN sessions
    /\ LET session == sessions[sessionId]
           version == [ id |-> nextId, sessionId |-> sessionId,
                        tabCount |-> session.tabCount,
                        snapshot |-> compressSession(session) ]
           history == VersionHistory(VersionsOf(versions, sessionId), version)
       IN  versions' = [i \in DOMAIN versions \cup {sessionId} |->
                            IF i = sessionId THEN history ELSE versions[i]]
    /\ nextId' = nextId + 1
    /\ UNCHANGED <<sessions, metadata, emergency, settings, statistics, crashVars, emLog>>
    /\ Did("createVersion", sessionId, nextId)

\* restoreVersion of the k-th version of sessionId's history
RestoreVersion(sessionId, k) ==
    /\ k \in 1..Len(VersionsOf(versions, sessionId))
    /\ LET session == decompressSession(versions[sessionId][k].snapshot)
       IN  /\ session # <<>>
           /\ saveSession([session EXCEPT !.version = @ + 1])
    /\ UNCHANGED <<emergency, versions, settings, statistics, crashVars, nextId, emLog>>
    /\ Did("restoreVersion", sessionId, k)

\* --------------------------------------------------- CrashRecoveryService

alarmName == "emergency-backup"

\* chrome.alarms.clear(name)
AlarmsCleared(all, name) == {a \in all : a.name # name}

\* chrome.alarms.create(name, {periodInMinutes}): replaces an alarm of that name
AlarmsCreated(all, name, period) ==
    AlarmsCleared(all, name) \cup {[name |-> name, periodInMinutes |-> period]}

StartedAlarmsNoClear(all, intervalMinutes) ==
    IF intervalMinutes <= 0 THEN all
    ELSE AlarmsCreated(all, alarmName, intervalMinutes)

\* startEmergencyBackupAlarm: clear, then create unless the interval is <= 0
StartedAlarms(all, intervalMinutes) ==
    IF intervalMinutes <= 0 THEN AlarmsCleared(all, alarmName)
    ELSE AlarmsCreated(AlarmsCleared(all, alarmName), alarmName, intervalMinutes)

wasCleanShutdownInverted(flag, readFails) == readFails \/ flag = "true"

\* wasCleanShutdown: the flag is not true, or reading session storage threw
wasCleanShutdown(flag, readFails) == readFails \/ flag # "true"

\* initialize; readFails: chrome.storage.session.get rejects
Initialize(readFails) ==
    /\ IF settings.crashRecoveryEnabled
       THEN /\ crashMarker' = (crashMarker \/ ~wasCleanShutdown(runningFlag, readFails))
            /\ runningFlag' = "true"
            /\ alarms' = StartedAlarms(alarms, settings.autoSaveInterval)
       ELSE UNCHANGED <<crashMarker, runningFlag, alarms>>
    /\ UNCHANGED <<storeVars, lastBackup, nextId, emLog>>
    /\ Did("initialize", 0, IF readFails THEN 1 ELSE 0)

\* the calls of an emergency backup that can reject: reading the settings,
\* chrome.tabs.query, writing the emergency list, writing the backup time
BackupFaults == {"none", "getSettings", "query", "save", "stamp"}

\* how the try block of performEmergencyBackup ends
BackupAttempt(window, fault) ==
    IF fault # "none" \/ Len(processTabsForCapture(window, settings)) = 0
    THEN "throw" ELSE "session"

CaughtNothing(outcome) == outcome

\* the catch block of performEmergencyBackup: an error becomes a null result
Caught(outcome) == IF outcome = "throw" THEN "null" ELSE outcome

\* what performEmergencyBackup hands to its caller
BackupReturn(window, fault) == Caught(BackupAttempt(window, fault))

\* performEmergencyBackup: the writes made before the failing call stay
PerformEmergencyBackup(window, fault) ==
    IF fault \in {"none", "stamp"} /\ Len(processTabsForCapture(window, settings)) > 0
    THEN /\ CreateEmergencySession(window)
         /\ lastBackup' = (lastBackup \/ fault = "none")
    ELSE UNCHANGED <<emergency, emLog, nextId, lastBackup>>

\* how a caller that awaits performEmergencyBackup completes
AfterBackup(window, fault) ==
    IF BackupReturn(window, fault) = "throw" THEN "throw" ELSE "ok"

\* 1 when performEmergencyBackup returned a session, 0 when it returned null
BackupInfo(window, fault) == IF BackupReturn(window, fault) = "session" THEN 1 ELSE 0

\* handleAlarm for a scheduled alarm that fires
HandleAlarm(alarm, window, fault) ==
    /\ alarm \in alarms
    /\ IF alarm.name = alarmName
       THEN PerformEmergencyBackup(window, fault)
       ELSE UNCHANGED <<emergency, emLog, nextId, lastBackup>>
    /\ UNCHANGED <<sessions, metadata, versions, settings, statistics,
                   crashMarker, runningFlag, alarms>>
    /\ DidR("handleAlarm", 0, BackupInfo(window, fault),
            IF alarm.name = alarmName THEN AfterBackup(window, fault) ELSE "ok", fault)

PerformCleanShutdown(window, fault) ==
    /\ PerformEmergencyBackup(window, fault)
    /\ runningFlag' = IF AfterBackup(window, fault) = "ok" THEN "absent" ELSE runningFlag
    /\ UNCHANGED <<sessions, metadata, versions, settings, statistics,
                   crashMarker, alarms>>
    /\ DidR("performCleanShutdown", 0, BackupInfo(window, fault),
            AfterBackup(window, fault), fault)

ClearCrashDetection ==
    /\ crashMarker' = FALSE
    /\ UNCHANGED <<storeVars, lastBackup, runningFlag, alarms, nextId, emLog>>
    /\ Did("clearCrashDetection", 0, 0)

\* the browser exits: chrome.storage.session is in-memory and is lost
BrowserExit ==
    /\ runningFlag' = "absent"
    /\ UNCHANGED <<storeVars, crashMarker, lastBackup, alarms, nextId, emLog>>
    /\ Did("browserExit", 0, 0)

\* the UPDATE_SETTINGS message handler
HandleUpdateSettings(payload) ==
    /\ settings' = MergedSettings(settings, payload)
    /\ alarms' = IF "autoSaveInterval" \in DOMAIN payload
                 THEN StartedAlarms(alarms, payload.autoSaveInterval)
                 ELSE alarms
    /\ UNCHANGED <<sessions, metadata, emergency, versions, statistics,
                   crashMarker, lastBackup, runningFlag, nextId, emLog>>
    /\ Did("updateSettings", 0, IF "autoSaveInterval" \in DOMAIN payload THEN 1 ELSE 0)

\* ===================================================== the storage layer

\* saveSession called directly, as the services and the tests do
StoreSaveSession(session) ==
    /\ saveSession(session)
    /\ UNCHANGED <<emergency, versions, settings, statistics, crashVars, nextId, emLog>>
    /\ Did("saveSession", session.id, 0)

\* the ids a request can name: the stored ones and one that is not stored
KnownIds == DOMAIN sessions \cup {0}

\* sessions handed to saveSession: plain ones, as createSession builds them
StoreInputs ==
    { Session(id, [i \in 1..Len(w) |-> TabData(w[i])], Undefined, FALSE, Len(w), v, FALSE, FALSE) :
        id \in 1..MaxIds, w \in {<<TabPlain>>, <<TabPlain, TabOther>>}, v \in 1..2 }

DoStoreSave == \E session \in StoreInputs : StoreSaveSession(session)
    /\ UNCHANGED auxVars

DoDeleteSession == \E id \in KnownIds \cup (1..MaxIds) : DeleteSession(id)
    /\ UNCHANGED auxVars

NextStore == DoStoreSave \/ DoDeleteSession

SpecStore == Init /\ [][NextStore]_vars

\* the ids of the metadata list, in order
MetaIds == [i \in 1..Len(metadata) |-> metadata[i].id]

\* the metadata list has exactly one entry for every stored session id, and none other
MetadataMirrorsSessions ==
    /\ {metadata[i].id : i \in 1..Len(metadata)} = DOMAIN sessions
    /\ Len(metadata) = Cardinality(DOMAIN sessions)

\* what one saveSession or deleteSession step does to the metadata list
StoreStep ==
    LET id == lastOp'.id
    IN  /\ (lastOp'.op = "saveSession" /\ id \notin DOMAIN sessions) =>
                /\ id \in DOMAIN sessions'
                /\ Len(metadata') = Len(metadata) + 1
                /\ metadata'[1].id = id
                /\ Tail(metadata') = metadata
        /\ (lastOp'.op = "saveSession" /\ id \in DOMAIN sessions) =>
                /\ DOMAIN sessions' = DOMAIN sessions
                /\ Len(metadata') = Len(metadata)
                /\ \A i \in 1..Len(metadata) :
                        /\ metadata'[i].id = metadata[i].id
                        /\ metadata[i].id # id => metadata'[i] = metadata[i]
                        /\ metadata[i].id = id =>
                                metadata'[i].version = sessions'[id].version
        /\ lastOp'.op = "deleteSession" =>
                /\ id \notin DOMAIN sessions'
                /\ \A i \in 1..Len(metadata') : metadata'[i].id # id
                /\ \A j \in DOMAIN sessions \ {id} :
                        j \in DOMAIN sessions' /\ sessions'[j] = sessions[j]

\* C1: after any sequence of saveSession and deleteSession calls the metadata
\* list holds exactly one entry per stored session id and none for any other
\* id; saving a new id prepends its entry, re-saving an existing id replaces
\* its entry in place, and deleteSession removes the record and the entry.
C1_MetadataConsistent == []MetadataMirrorsSessions /\ [][StoreStep]_vars

\* a re-saved session sits below a newer one, after a delete of another id
C1_Witness ==
    /\ Len(metadata) = 2
    /\ metadata[2].version = 2
    /\ lastOp.op = "deleteSession"
    /\ lastOp.id \notin DOMAIN sessions

\* ================================================= the session lifecycle

DoCreateSession(windows) == nextId <= MaxIds /\ \E w \in windows : CreateSession(w)
    /\ UNCHANGED auxVars

DoUpdateSession ==
    \E id \in DOMAIN sessions : sessions[id].version < MaxVersion /\ UpdateSession(id)
    /\ UNCHANGED auxVars

DoRestoreSession(windows) ==
    /\ statistics.totalSessionsRestored < MaxRestores
    /\ \E id \in DOMAIN sessions, w \in windows, created \in 0..(MaxTabs + 1) :
            RestoreSession(id, w, created)
    /\ UNCHANGED auxVars

DoDuplicateSession == nextId <= MaxIds /\ \E id \in DOMAIN sessions : DuplicateSession(id)
    /\ UNCHANGED auxVars

DoMergeSessions ==
    nextId <= MaxIds /\ \E a \in KnownIds, b \in KnownIds : MergeSessions(<<a, b>>)
    /\ UNCHANGED auxVars

DoSplitSession == nextId <= MaxIds /\ \E id \in DOMAIN sessions : SplitSession(id)
    /\ UNCHANGED auxVars

DoImport(files) ==
    nextId <= MaxIds /\ \E file \in files, overwrite \in BOOLEAN :
                            ImportFromJSON(file, overwrite, <<>>)
    /\ UNCHANGED auxVars

DoCreateVersion == nextId <= MaxIds /\ \E id \in DOMAIN sessions : CreateVersion(id)
    /\ UNCHANGED auxVars

DoRestoreVersion ==
    \E id \in DOMAIN versions :
        \E k \in 1..Len(versions[id]) :
            /\ decompressSession(versions[id][k].snapshot).version < MaxVersion
            /\ RestoreVersion(id, k)
    /\ UNCHANGED auxVars

DoUpdateSettings(payloads) == \E payload \in payloads : HandleUpdateSettings(payload)
    /\ UNCHANGED auxVars

\* settings changes that move the compression policy
CompressionPayloads == {[compressionThreshold |-> 2], [useCompression |-> FALSE]}

\* windows of one and of two capturable tabs
TwoWindows == {<<TabPlain>>, <<TabPlain, TabOther>>}

\* ids found in import files: none, one not generated here, or one of the store's
FileIds == {0, 101} \cup DOMAIN sessions

\* one-session import files
SimpleFiles ==
    { <<FileSession(id, tabs, v, Undefined)>> :
        id \in FileIds, tabs \in {<<TabPlain>>, <<TabPlain, TabScript>>}, v \in {0, 2} }

NextMeta ==
    \/ DoCreateSession(TwoWindows)
    \/ DoUpdateSession
    \/ DoMergeSessions
    \/ DoSplitSession
    \/ DoImport(SimpleFiles)
    \/ DoUpdateSettings({[compressionThreshold |-> 2]})

SpecMeta == Init /\ [][NextMeta]_vars

\* C2: for every persisted session, compressed ones included, the tabCount of
\* its metadata entry equals the number of tabs the session holds.
C2_TabCountMatches ==
    \A i \in 1..Len(metadata) :
        metadata[i].id \in DOMAIN sessions =>
            metadata[i].tabCount = Len(getSession(metadata[i].id).tabs)

NextSource ==
    \/ DoCreateSession(TwoWindows)
    \/ DoUpdateSession
    \/ DoRestoreSession({<<>>})
    \/ DoDuplicateSession
    \/ DoMergeSessions
    \/ DoSplitSession
    \/ DoUpdateSettings(CompressionPayloads)

SpecSource == Init /\ [][NextSource]_vars

\* C4: every stored session has exactly one tab source: a compressed one has
\* no plain tabs and a blob, a plain one has no blob.
C4_OneTabSource ==
    \A id \in DOMAIN sessions :
        /\ sessions[id].isCompressed =>
                sessions[id].tabs = <<>> /\ sessions[id].compressedTabs # Undefined
        /\ ~sessions[id].isCompressed => sessions[id].compressedTabs = Undefined

NextHistory ==
    \/ DoCreateSession(TwoWindows)
    \/ DoUpdateSession
    \/ DoRestoreSession({<<>>})
    \/ DoCreateVersion
    \/ DoRestoreVersion

SpecHistory == Init /\ [][NextHistory]_vars

\* C9: the version number of a stored session never decreases, and every
\* updateSession and restoreVersion leaves it strictly greater than before.
C9_VersionStep ==
    \A id \in DOMAIN sessions \cap DOMAIN sessions' :
        /\ sessions'[id].version >= sessions[id].version
        /\ (lastOp'.op \in {"updateSession", "restoreVersion"} /\ lastOp'.id = id) =>
                sessions'[id].version > sessions[id].version

C9_VersionMonotonic == [][C9_VersionStep]_vars

\* ===================================================== crash recovery

DoInitialize == \E readFails \in BOOLEAN : Initialize(readFails)
    /\ UNCHANGED auxVars

DoHandleAlarm(windows, limit) ==
    nextId <= limit /\ \E alarm \in alarms, w \in windows, fault \in BackupFaults :
        HandleAlarm(alarm, w, fault)
    /\ UNCHANGED auxVars

DoCleanShutdown(windows, limit) ==
    nextId <= limit /\ \E w \in windows, fault \in BackupFaults :
        PerformCleanShutdown(w, fault)
    /\ UNCHANGED auxVars

DoClearCrashDetection == ClearCrashDetection /\ UNCHANGED auxVars

DoBrowserExit == BrowserExit /\ UNCHANGED auxVars

\* windows for a backup: one that yields tabs and one that yields none
BackupWindows == {<<TabPlain>>, <<TabScript>>}

\* settings changes that move the crash-recovery policy; the intervals are
\* a negative one, zero, and two positive ones
CrashPayloads ==
    {[autoSaveInterval |-> n] : n \in {0 - 1, 0, 1, 2 * DefaultAutoSaveInterval}}
        \cup {[crashRecoveryEnabled |-> b] : b \in BOOLEAN}

NextCrash ==
    \/ DoInitialize
    \/ DoHandleAlarm(BackupWindows, MaxEmergencySaves)
    \/ DoCleanShutdown(BackupWindows, MaxEmergencySaves)
    \/ DoClearCrashDetection
    \/ DoBrowserExit
    \/ DoUpdateSettings(CrashPayloads)

SpecCrash == Init /\ [][NextCrash]_vars

\* wasCrashDetected()
wasCrashDetected == crashMarker

\* C3 as stated: every initialize with crash recovery enabled that finds the
\* running flag absent or false persists the crash marker.
C3_AbsentFlagMarksCrash ==
    [][(lastOp'.op = "initialize" /\ settings.crashRecoveryEnabled
            /\ runningFlag # "true") => wasCrashDetected']_vars

C3_InitializeStep ==
    (lastOp'.op = "initialize" /\ settings.crashRecoveryEnabled) =>
        /\ (runningFlag = "true" /\ lastOp'.info = 0) => wasCrashDetected'
        /\ ~(runningFlag = "true" /\ lastOp'.info = 0) =>
                wasCrashDetected' = wasCrashDetected

\* C3, amended: every initialize with crash recovery enabled persists the
\* crash marker when it reads the running flag as true, and leaves the
\* marker as it was when the flag is absent or cannot be read.
C3_TrueFlagMarksCrash == [][C3_InitializeStep]_vars

\* an initialize that found the flag of the previous run and marked a crash
C3_Witness ==
    /\ lastOp.op = "initialize"
    /\ lastOp.info = 0
    /\ wasCrashDetected
    /\ settings.crashRecoveryEnabled

\* the scheduled alarms named 'emergency-backup'
BackupAlarms == {a \in alarms : a.name = alarmName}

\* a step that runs startEmergencyBackupAlarm(settings'.autoSaveInterval)
StartsAlarm ==
    \/ lastOp'.op = "initialize" /\ settings.crashRecoveryEnabled
    \/ lastOp'.op = "updateSettings" /\ lastOp'.info = 1

C10_AlarmStep ==
    StartsAlarm =>
        LET n == settings'.autoSaveInterval
        IN  /\ n <= 0 => BackupAlarms' = {}
            /\ n > 0 => BackupAlarms' = {[name |-> alarmName, periodInMinutes |-> n]}

\* C10: at most one 'emergency-backup' alarm is ever scheduled; after
\* startEmergencyBackupAlarm(n) there is none when n <= 0 and exactly one,
\* of period n, when n > 0.
C10_SingleAlarm == [](Cardinality(BackupAlarms) <= 1) /\ [][C10_AlarmStep]_vars

\* the alarm was rescheduled with a new period, and later switched off
C10_Witness ==
    /\ lastOp.op = "updateSettings"
    /\ lastOp.info = 1
    /\ settings.autoSaveInterval = 0
    /\ BackupAlarms = {}
    /\ runningFlag = "true"

\* ================================================ emergency backups

\* the store after the user has chosen how many emergency sessions to keep
InitEmergency ==
    /\ \E m \in 0..MaxEmergencyMax :
            settings = [DEFAULT_SETTINGS EXCEPT !.maxEmergencySessions = m]
    /\ sessions = <<>> /\ metadata = <<>> /\ emergency = <<>> /\ versions = <<>>
    /\ statistics = EmptyStatistics
    /\ crashMarker = FALSE /\ lastBackup = FALSE
    /\ runningFlag = "absent" /\ alarms = {}
    /\ nextId = 1 /\ emLog = <<>>
    /\ lastOp = Op("none", 0, 0)
    /\ InitAux

NextEmergency ==
    \/ DoInitialize
    \/ DoHandleAlarm({<<TabPlain>>, <<TabPlain, TabOther>>, <<TabScript>>}, MaxEmergencySaves)
    \/ DoCleanShutdown({<<TabPlain>>, <<TabScript>>}, MaxEmergencySaves)
    \/ DoBrowserExit

SpecEmergency == InitEmergency /\ [][NextEmergency]_vars

\* C7: after N saveEmergencySession calls with the same maximum M the list
\* holds exactly min(N, M) sessions, most recent first, and they are the
\* most recently saved ones.
C7_EmergencyBounded ==
    LET M == settings.maxEmergencySessions
        N == Len(emLog)
    IN  /\ Len(emergency) = Min(N, M)
        /\ \A i \in 1..Len(emergency) : emergency[i].id = emLog[i]
        /\ \A i \in 1..(Len(emergency) - 1) : emergency[i].id > emergency[i + 1].id

\* more saves than the maximum: the oldest ones are gone
C7_Witness ==
    /\ settings.maxEmergencySessions >= 2
    /\ Len(emLog) > settings.maxEmergencySessions
    /\ Len(emergency) = settings.maxEmergencySessions
    /\ emergency[1].id = emLog[1]

\* ============================================================ stored URLs

\* windows with tabs that capture keeps, rewrites and drops
UrlWindows == {<<TabPlain, TabScript>>, <<TabCred, TabOther>>}

\* a blob of tabs that no capture produced
ForeignBlob == compressTabs(<<TabScript>>)

\* import files whose tabs a capture would have kept, rewritten or dropped
UrlFiles ==
    { <<FileSession(id, tabs, 0, blob)>> :
        id \in {101},
        tabs \in {<<TabCred>>, <<TabPlain, TabScript>>, <<TabFtp, TabUntitled>>},
        blob \in {Undefined, ForeignBlob} }

NextUrls ==
    \/ DoCreateSession(UrlWindows)
    \/ DoImport(UrlFiles)
    \/ DoCleanShutdown({<<TabCred, TabFtp>>}, MaxIds)
    \/ DoDuplicateSession
    \/ DoUpdateSettings({[compressionThreshold |-> 2]})

SpecUrls == Init /\ [][NextUrls]_vars

\* the tabs held by the stored normal and emergency sessions
StoredTabs ==
    UNION ( {UrlsOf(getSession(id).tabs) : id \in DOMAIN sessions}
                \cup {UrlsOf(emergency[i].tabs) : i \in 1..Len(emergency)} )

\* C5: every tab held by a stored normal or emergency session has a URL that
\* passes isValidUrl.
C5_StoredUrlsValid == \A url \in StoredTabs : isValidUrl(url)

\* captured and imported sessions side by side, one of them compressed
C5_Witness ==
    /\ lastOp.op = "importFromJSON"
    /\ 101 \in DOMAIN sessions
    /\ Len(sessions[101].tabs) = 1
    /\ \E id \in DOMAIN sessions : sessions[id].isCompressed
    /\ Len(emergency) > 0

\* C6: no URL of a stored tab carries embedded credentials.
C6_NoStoredCredentials == \A url \in StoredTabs : ~url.cred

\* ======================================================= version history

\* ids handed out while building histories: the sessions, a full history and
\* the versions that overflow it
VersionIdLimit == MaxVersionedSessions + MAX_VERSIONS_PER_SESSION + ExtraVersions

DoCreateFirstSessions == nextId <= MaxVersionedSessions /\ CreateSession(<<TabPlain>>)
    /\ UNCHANGED auxVars

DoCreateVersionLong ==
    nextId <= VersionIdLimit /\ \E id \in DOMAIN sessions : CreateVersion(id)
    /\ UNCHANGED auxVars

NextVersions == DoCreateFirstSessions \/ DoCreateVersionLong

SpecVersions == Init /\ [][NextVersions]_vars

\* every history is at most MAX_VERSIONS_PER_SESSION long, newest first
HistoriesBounded ==
    \A id \in DOMAIN versions :
        /\ Len(versions[id]) <= MAX_VERSIONS_PER_SESSION
        /\ \A i \in 1..Len(versions[id]) : versions[id][i].sessionId = id
        /\ \A i \in 1..(Len(versions[id]) - 1) :
                versions[id][i].id > versions[id][i + 1].id

\* what one createVersion does to the histories
CreateVersionStep ==
    lastOp'.op = "createVersion" =>
        LET id == lastOp'.id
            old == VersionsOf(versions, id)
            new == VersionsOf(versions', id)
        IN  /\ new[1].id = lastOp'.info
            /\ Len(new) = Min(Len(old) + 1, MAX_VERSIONS_PER_SESSION)
            /\ Tail(new) = Take(old, MAX_VERSIONS_PER_SESSION - 1)
            /\ \A j \in DOMAIN versions \ {id} :
                    j \in DOMAIN versions' /\ versions'[j] = versions[j]

C11_BackupStep ==
    lastOp'.op = "handleAlarm" =>
        /\ lastOp'.result = "ok"
        /\ alarms' = alarms
        /\ (lastOp'.fault # "none" \/ emLog' = emLog) => lastOp'.info = 0
        /\ lastOp'.info = 0 => lastBackup' = lastBackup

C11_BackupNeverThrows == [][C11_BackupStep]_vars

\* an alarm fired, the write of the emergency list was rejected, and the
\* alarm is still scheduled
C11_Witness ==
    /\ lastOp.op = "handleAlarm"
    /\ lastOp.fault = "save"
    /\ lastOp.info = 0
    /\ lastOp.result = "ok"
    /\ BackupAlarms # {}

\* ------------------------------------------------ the message boundary

HandleMessageResponseAlwaysOk(result) == [success |-> TRUE, error |-> ""]

\* the Response handleMessage resolves with: the case's own return, or what
\* its catch block makes of the error thrown
HandleMessageResponse(result) ==
    IF result = "ok" THEN [success |-> TRUE, error |-> ""]
    ELSE [success |-> FALSE, error |-> result]

\* the onMessage listener: handleMessage(message).then(sendResponse)
Answer(type, result) ==
    Reply("message", type, 1, HandleMessageResponse(result).success,
          HandleMessageResponse(result).error, 0, 0, 0)

\* the part of a handleMessage case after the service call: invalidateCache
\* where the case has it and the call did not throw, then the response
Handled(type, invalidates) ==
    /\ reply' = Answer(type, lastOp'.result)
    /\ searchIndex' = IF invalidates /\ lastOp'.result = "ok" THEN <<>> ELSE searchIndex
    /\ UNCHANGED <<folders, asyncVars, outerVars>>

MsgSaveSession(window) == CreateSession(window) /\ Handled("SAVE_SESSION", TRUE)

MsgRestoreSession(id, window, created) ==
    RestoreSession(id, window, created) /\ Handled("RESTORE_SESSION", FALSE)

MsgDeleteSession(id) == DeleteSession(id) /\ Handled("DELETE_SESSION", TRUE)

MsgUpdateSession(id) == UpdateSession(id) /\ Handled("UPDATE_SESSION", TRUE)

MsgDuplicateSession(id) == DuplicateSession(id) /\ Handled("DUPLICATE_SESSION", TRUE)

MsgMergeSessions(ids) == MergeSessions(ids) /\ Handled("MERGE_SESSIONS", TRUE)

MsgSplitSession(id) == SplitSession(id) /\ Handled("SPLIT_SESSION", TRUE)

MsgUpdateSettings(payload) ==
    HandleUpdateSettings(payload) /\ Handled("UPDATE_SETTINGS", FALSE)

\* the cases that only read the store
ReadTypes ==
    {"GET_SESSIONS", "GET_SESSION", "GET_FOLDERS", "GET_SETTINGS", "CHECK_CRASH",
     "GET_EMERGENCY_SESSIONS", "GET_STATISTICS"}

MsgRead(type) ==
    /\ type \in ReadTypes
    /\ UNCHANGED <<storeVars, crashVars, nextId, emLog>>
    /\ Did(type, 0, 0)
    /\ Handled(type, FALSE)

\* the cases handleMessage has
HandledTypes ==
    ReadTypes \cup
    {"SAVE_SESSION", "RESTORE_SESSION", "DELETE_SESSION", "UPDATE_SESSION",
     "DUPLICATE_SESSION", "MERGE_SESSIONS", "SPLIT_SESSION", "CREATE_FOLDER",
     "UPDATE_FOLDER", "DELETE_FOLDER", "UPDATE_SETTINGS", "EXPORT_SESSIONS",
     "CLEAR_EMERGENCY_SESSIONS"}

\* tags with no case: three of the MessageType enum and one outside it
UnhandledTypes ==
    {"IMPORT_SESSIONS", "RESTORE_EMERGENCY_SESSION", "GET_SCROLL_POSITION", "BOGUS"}

\* the default case
MsgUnknown(type) ==
    /\ type \notin HandledTypes
    /\ UNCHANGED <<storeVars, crashVars, nextId, emLog>>
    /\ DidR(type, 0, 0, "Unknown message type", "none")
    /\ Handled(type, FALSE)

\* a case whose first storage call rejects (chrome.runtime.lastError)
MsgStorageRejects(type) ==
    /\ type \in HandledTypes
    /\ UNCHANGED <<storeVars, crashVars, nextId, emLog>>
    /\ DidR(type, 0, 0, "storage rejected", "get")
    /\ Handled(type, FALSE)

\* what the command and context-menu listeners leave behind: no response
Unanswered(via, type) ==
    /\ reply' = Reply(via, type, 0, lastOp'.result = "ok", "", 0, 0, 0)
    /\ UNCHANGED <<folders, searchIndex, asyncVars, outerVars>>

\* the 'save-session' keyboard command
CmdSaveSession(window) == CreateSession(window) /\ Unanswered("command", "save-session")

\* the 'restore-last' keyboard command
CmdRestoreLast(window, created) ==
    /\ Len(metadata) > 0
    /\ RestoreSession(metadata[1].id, window, created)
    /\ Unanswered("command", "restore-last")

\* the 'save-session' context-menu item
MenuSaveSession(window) == CreateSession(window) /\ Unanswered("menu", "save-session")

\* windows for a save: one that yields tabs and one that yields none
SaveWindows == {<<TabPlain, TabOther>>, <<TabScript>>}

\* id lists for a merge: too short ones and pairs
MergeInputs ==
    {<<>>} \cup {<<a>> : a \in KnownIds} \cup {<<a, b>> : a \in KnownIds, b \in KnownIds}

DoMsgSaveSession(windows) == nextId <= MaxMessageIds /\ \E w \in windows : MsgSaveSession(w)

DoMsgRestoreSession(windows) ==
    /\ statistics.totalSessionsRestored < MaxRestores
    /\ \E id \in KnownIds, w \in windows, created \in {0, MaxTabs} :
            MsgRestoreSession(id, w, created)

DoMsgDeleteSession == \E id \in KnownIds : MsgDeleteSession(id)

DoMsgUpdateSession ==
    \E id \in KnownIds :
        /\ id \in DOMAIN sessions => sessions[id].version < MaxMessageVersion
        /\ MsgUpdateSession(id)

DoMsgDuplicateSession == nextId <= MaxMessageIds /\ \E id \in KnownIds : MsgDuplicateSession(id)

DoMsgMergeSessions ==
    \E ids \in MergeInputs :
        /\ Len(ids) >= 2 => nextId <= MaxMessageIds
        /\ MsgMergeSessions(ids)

DoMsgSplitSession == nextId <= MaxMessageIds /\ \E id \in KnownIds : MsgSplitSession(id)

DoMsgUpdateSettings(payloads) == \E payload \in payloads : MsgUpdateSettings(payload)

DoMsgRead == \E type \in {"GET_SESSIONS"} : MsgRead(type)

DoMsgUnknown == \E type \in {"IMPORT_SESSIONS", "BOGUS"} : MsgUnknown(type)

DoMsgStorageRejects == \E type \in {"SAVE_SESSION"} : MsgStorageRejects(type)

DoCmdSaveSession(windows) == nextId <= MaxMessageIds /\ \E w \in windows : CmdSaveSession(w)

DoCmdRestoreLast(windows) ==
    /\ statistics.totalSessionsRestored < MaxRestores
    /\ \E w \in windows, created \in 0..MaxTabs : CmdRestoreLast(w, created)

DoMenuSaveSession(windows) == nextId <= MaxMessageIds /\ \E w \in windows : MenuSaveSession(w)

NextMessages ==
    \/ DoMsgSaveSession(SaveWindows)
    \/ DoMsgRestoreSession({<<>>})
    \/ DoMsgDeleteSession
    \/ DoMsgUpdateSession
    \/ DoMsgDuplicateSession
    \/ DoMsgMergeSessions
    \/ DoMsgSplitSession
    \/ DoMsgRead
    \/ DoMsgUnknown
    \/ DoMsgStorageRejects

SpecMessages == Init /\ [][NextMessages]_vars

\* C12: every message delivered to the onMessage listener gets exactly one
\* response {success, error}: success when the handler completed, the
\* thrown or rejected error's message with success false otherwise, and
\* 'Unknown message type' for a tag with no case.
C12_OneResponse ==
    reply.via = "message" =>
        /\ reply.sent = 1
        /\ lastOp.result = "ok" => reply.success /\ reply.error = ""
        /\ lastOp.result # "ok" => ~reply.success /\ reply.error = lastOp.result
        /\ reply.type \notin HandledTypes =>
                ~reply.success /\ reply.error = "Unknown message type"

\* a handler threw and the sender was told so
C12_Witness ==
    /\ reply.via = "message"
    /\ reply.type = "SPLIT_SESSION"
    /\ reply.sent = 1
    /\ ~reply.success
    /\ reply.error = "Session not found"
    /\ sessions # <<>>

\* the error messages of the precondition failures
PreconditionErrors ==
    {"No valid tabs to save", "Need at least 2 sessions to merge", "Session not found"}

C14_AbortStep ==
    LET untouched == UNCHANGED <<sessions, metadata, statistics>>
    IN  /\ (lastOp'.op = "createSession" /\ lastOp'.id = 0) =>
                lastOp'.result = "No valid tabs to save" /\ untouched
        /\ (lastOp'.op = "mergeSessions" /\ lastOp'.info < 2) =>
                lastOp'.result = "Need at least 2 sessions to merge" /\ untouched
        /\ (lastOp'.op \in {"restoreSession", "splitSession", "duplicateSession"}
                /\ lastOp'.id \notin DOMAIN sessions) =>
                lastOp'.result = "Session not found" /\ untouched
        /\ lastOp'.result \in PreconditionErrors => untouched

\* C14: a precondition failure aborts the whole operation and leaves
\* sessions, metadata and statistics unchanged: createSession when capture
\* yields no tabs, mergeSessions with fewer than two ids, and restoreSession,
\* splitSession and duplicateSession on an unknown id.
C14_AbortLeavesStore == [][C14_AbortStep]_vars

\* a merge of one id was refused on a store that holds sessions
C14_Witness ==
    /\ lastOp.op = "mergeSessions"
    /\ lastOp.info = 1
    /\ lastOp.result = "Need at least 2 sessions to merge"
    /\ Len(metadata) >= 2
    /\ statistics.totalSessionsSaved >= 1

\* ===================================== save, restore, delete of one window

\* a third capturable tab, on a host of its own
UrlThird == Url(TRUE, "https:", FALSE, HostC)
TabThird == RawTab(UrlThird, "T")

\* the current window: three tabs that stay open throughout
ThreeTabWindow == <<TabPlain, TabOther, TabThird>>

\* restoreSession when chrome.tabs.create succeeds for every tab handed over
DoRestoreEveryTab(windows) ==
    /\ statistics.totalSessionsRestored <= MaxRestores
    /\ \E id \in DOMAIN sessions, w \in windows :
            RestoreSession(id, w, Len(TabsToRestore(getSession(id), w)))
    /\ UNCHANGED auxVars

\* the duplicate filter switched off and on again
DuplicatePayloads == {[detectDuplicates |-> FALSE], [detectDuplicates |-> TRUE]}

NextRoundTrip ==
    \/ DoCreateSession({ThreeTabWindow})
    \/ DoRestoreEveryTab({ThreeTabWindow})
    \/ DoDeleteSession
    \/ DoUpdateSettings(DuplicatePayloads)

SpecRoundTrip == Init /\ [][NextRoundTrip]_vars

C13_RoundTripStep ==
    /\ (lastOp'.op = "restoreSession" /\ lastOp'.result = "ok"
            /\ settings = DEFAULT_SETTINGS) =>
            lastOp'.info = Len(ThreeTabWindow)
    /\ lastOp'.op = "deleteSession" =>
            \A i \in 1..Len(metadata') : metadata'[i].id # lastOp'.id

\* C13: under default settings, restoring a session created from the three
\* open tabs of the current window creates exactly three tabs, and a deleted
\* session no longer appears in the metadata list.
C13_RestoreCreatesEveryTab == [][C13_RoundTripStep]_vars

\* ================================================================= merging

\* windows that share urls with each other and within themselves
MergeWindows ==
    {<<TabPlain, TabOther>>, <<TabUntitled, TabThird, TabOther>>}

DoMergeOf(inputs) == nextId <= MaxIds /\ \E ids \in inputs : MergeSessions(ids)
    /\ UNCHANGED auxVars

NextMerge ==
    \/ DoCreateSession(MergeWindows)
    \/ DoMergeOf(MergeInputs)
    \/ DoUpdateSettings({[compressionThreshold |-> 2]})

SpecMerge == Init /\ [][NextMerge]_vars

\* the tabs a stored session holds, in either representation
HeldTabs(session) ==
    IF session.isCompressed THEN decompressTabs(session.compressedTabs)
    ELSE session.tabs

\* the positions <<source, tab>> of the sources' tabs, and their reading order
SourcePositions(ids) ==
    UNION {{<<i, j>> : j \in 1..Len(getSession(ids[i]).tabs)} : i \in 1..Len(ids)}

Before(p, q) == p[1] < q[1] \/ (p[1] = q[1] /\ p[2] < q[2])

TabAt(ids, p) == getSession(ids[p[1]]).tabs[p[2]]

FirstOccurrence(ids, url) ==
    CHOOSE p \in SourcePositions(ids) :
        /\ TabAt(ids, p).url = url
        /\ \A q \in SourcePositions(ids) :
                TabAt(ids, q).url = url => q = p \/ Before(p, q)

MergeResult(ids) ==
    LET merged == sessions'[nextId]
        tabs == HeldTabs(merged)
        urls == {TabAt(ids, p).url : p \in SourcePositions(ids)}
    IN  /\ DOMAIN sessions' = DOMAIN sessions \cup {nextId}
        /\ \A id \in DOMAIN sessions : sessions'[id] = sessions[id]
        /\ {tabs[k].url : k \in 1..Len(tabs)} = urls
        /\ Len(tabs) = Cardinality(urls)
        /\ merged.tabCount = Cardinality(urls)
        /\ \A k \in 1..Len(tabs) : tabs[k] = TabAt(ids, FirstOccurrence(ids, tabs[k].url))
        /\ \A k, l \in 1..Len(tabs) :
                k < l => Before(FirstOccurrence(ids, tabs[k].url),
                                FirstOccurrence(ids, tabs[l].url))

C15_MergeStep ==
    \A ids \in MergeInputs :
        (/\ Len(ids) >= 2
         /\ \A i \in 1..Len(ids) : ids[i] \in DOMAIN sessions
         /\ MergeSessions(ids)) => MergeResult(ids)

\* C15: merging existing sessions adds one session whose tabs are the
\* sources' tabs in input order with each URL kept at its first occurrence,
\* whose tabCount is the number of distinct URLs, and leaves the sources
\* unchanged.
C15_MergeKeepsFirstOccurrences == [][C15_MergeStep]_vars

\* a merge of two different sessions dropped a repeated URL
C15_Witness ==
    /\ lastOp.op = "mergeSessions"
    /\ lastOp.result = "ok"
    /\ lastOp.id \in DOMAIN sessions
    /\ \E a, b \in DOMAIN sessions \ {lastOp.id} :
            /\ a # b
            /\ sessions[a].tabCount = 2
            /\ sessions[b].tabCount = 3
            /\ sessions[lastOp.id].tabCount = 3
            /\ HeldTabs(sessions[lastOp.id])[2] = [url |-> UrlOther, title |-> "T"]

\* =============================================================== splitting

\* a window whose two domains interleave, and a window of one tab
SplitWindows == {<<TabOther, TabPlain, TabUntitled>>, <<TabThird>>}

DoSplitOf(ids) == nextId <= MaxIds /\ \E id \in ids : SplitSession(id)
    /\ UNCHANGED auxVars

NextSplit ==
    \/ DoCreateSession(SplitWindows)
    \/ DoSplitOf(KnownIds)
    \/ DoDeleteSession
    \/ DoUpdateSettings({[compressionThreshold |-> 2]})

SpecSplit == Init /\ [][NextSplit]_vars

\* tabs is part of whole, in the same relative order
RECURSIVE IsSubsequence(_, _)
IsSubsequence(tabs, whole) ==
    IF tabs = <<>> THEN TRUE
    ELSE IF whole = <<>> THEN FALSE
    ELSE IF Head(tabs) = Head(whole) THEN IsSubsequence(Tail(tabs), Tail(whole))
    ELSE IsSubsequence(tabs, Tail(whole))

SplitResult(id) ==
    LET original == getSession(id).tabs
        domains == {extractDomain(original[k].url) : k \in 1..Len(original)}
        fresh == DOMAIN sessions' \ DOMAIN sessions
        tabsOf(n) == HeldTabs(sessions'[n])
    IN  /\ Cardinality(fresh) = Cardinality(domains)
        /\ \A n \in fresh :
                /\ tabsOf(n) # <<>>
                /\ \A k \in 1..Len(tabsOf(n)) :
                        extractDomain(tabsOf(n)[k].url) = extractDomain(tabsOf(n)[1].url)
                /\ IsSubsequence(tabsOf(n), original)
        /\ UNION {{tabsOf(n)[k].url : k \in 1..Len(tabsOf(n))} : n \in fresh}
                = {original[k].url : k \in 1..Len(original)}
        /\ \A old \in DOMAIN sessions : sessions'[old] = sessions[old]

C16_SplitStep ==
    \A id \in DOMAIN sessions : SplitSession(id) => SplitResult(id)

\* C16: splitting a session whose tabs span K domains persists exactly K new
\* sessions, each holding tabs of one domain in their original relative
\* order and together holding the original's URLs; the original stays in
\* the store unchanged.
C16_SplitByDomain == [][C16_SplitStep]_vars

\* a session of three tabs on two interleaved domains was split in two
C16_Witness ==
    /\ lastOp.op = "splitSession"
    /\ lastOp.result = "ok"
    /\ lastOp.info = 2
    /\ lastOp.id \in DOMAIN sessions
    /\ sessions[lastOp.id].tabCount = 3
    /\ \E n \in DOMAIN sessions :
            /\ n > lastOp.id
            /\ Len(HeldTabs(sessions[n])) = 2
            /\ HeldTabs(sessions[n])[1].title = "T"
            /\ HeldTabs(sessions[n])[2].title = "Untitled"

\* ====================================================== the import envelope

\* the parsed import file: version (0 when missing), whether it has a
\* sessions member and whether that is an array, its sessions and folders
Envelope(version, hasSessions, isArray, file, fileFolders) ==
    [ version |-> version, hasSessions |-> hasSessions, isArray |-> isArray,
      sessions |-> file, folders |-> fileFolders ]

\* (a format test that looks at the version only)
EnvelopeValidVersionOnly(env) == env.version # 0

\* importFromJSON's format test
EnvelopeValid(env) == env.version # 0 /\ env.hasSessions /\ env.isArray

\* importFromJSON's loop over data.folders: <<folders, next id>>
RECURSIVE ImportedFolders(_, _, _, _, _)
ImportedFolders(incoming, overwriteExisting, existingIds, newFolders, fresh) ==
    IF incoming = <<>> THEN <<newFolders, fresh>>
    ELSE LET folder == Head(incoming)
             at == {i \in 1..Len(newFolders) : newFolders[i].id = folder.id}
         IN  IF folder.id \in existingIds /\ ~overwriteExisting
             THEN ImportedFolders(Tail(incoming), overwriteExisting, existingIds,
                                  Append(newFolders, [folder EXCEPT !.id = fresh]),
                                  fresh + 1)
             ELSE ImportedFolders(Tail(incoming), overwriteExisting, existingIds,
                                  IF at = {} THEN Append(newFolders, folder)
                                  ELSE [newFolders EXCEPT ![CHOOSE i \in at :
                                            \A j \in at : i <= j] = folder],
                                  fresh)

\* folderIdMap after the loop over data.folders, as the list of its set
\* calls <<old id, new id>>
RECURSIVE FolderIdMap(_, _, _, _)
FolderIdMap(incoming, overwriteExisting, existingIds, fresh) ==
    IF incoming = <<>> THEN <<>>
    ELSE IF Head(incoming).id \in existingIds /\ ~overwriteExisting
         THEN <<<<Head(incoming).id, fresh>>>>
                  \o FolderIdMap(Tail(incoming), overwriteExisting, existingIds, fresh + 1)
         ELSE <<<<Head(incoming).id, Head(incoming).id>>>>
                  \o FolderIdMap(Tail(incoming), overwriteExisting, existingIds, fresh)

\* (a session that keeps the folder id of the file)
NotRemapped(fs, map) == fs

\* session.folderId = folderIdMap.get(session.folderId) where the map has it;
\* folder id 0 is no folder
Remapped(fs, map) ==
    LET sets == IF "folderId" \in DOMAIN fs /\ fs.folderId # 0
                THEN {i \in 1..Len(map) : map[i][1] = fs.folderId} ELSE {}
    IN  IF sets = {} THEN fs
        ELSE [fs EXCEPT !.folderId = map[CHOOSE i \in sets : \A j \in sets : j <= i][2]]

\* the sessions of a file that the import loop saves
Accepted(file) ==
    SelectSeq(file, LAMBDA fs : fs.id # 0 /\ Len(ValidTabs(fs.tabs)) > 0)

\* importFromJSON of a parsed file, and the ImportResult it returns
ImportEnvelope(env, overwriteExisting, fileSettings) ==
    IF ~EnvelopeValid(env)
    THEN /\ UNCHANGED <<storeVars, crashVars, nextId, emLog, folders, searchIndex,
                        asyncVars, outerVars>>
         /\ reply' = Reply("call", "importFromJSON", 1, FALSE, "", 0, 0, 1)
         /\ DidR("importFromJSON", 0, 0, "Invalid export file format", "none")
    ELSE LET existingIds == {folders[i].id : i \in 1..Len(folders)}
             kept == ImportedFolders(env.folders, overwriteExisting, existingIds,
                                     folders, nextId)
             folderIdMap == FolderIdMap(env.folders, overwriteExisting, existingIds,
                                        nextId)
             remapped == [i \in 1..Len(env.sessions) |->
                             Remapped(env.sessions[i], folderIdMap)]
             done == Imported(remapped, overwriteExisting, sessions, metadata,
                              kept[2])
             sessionsImported == Len(Accepted(env.sessions))
         IN  /\ folders' = kept[1]
             /\ sessions' = done[1]
             /\ metadata' = done[2]
             /\ nextId' = done[3]
             /\ settings' = MergedSettings(settings, fileSettings)
             /\ reply' = Reply("call", "importFromJSON", 1, sessionsImported > 0, "",
                               sessionsImported, Len(env.folders),
                               Len(env.sessions) - sessionsImported)
             /\ UNCHANGED <<emergency, versions, statistics, crashVars, emLog,
                            searchIndex, asyncVars, outerVars>>
             /\ Did("importFromJSON", 0, Len(env.sessions))

FileFolder(id) == [id |-> id]

\* import files with and without a version and a sessions array
Envelopes ==
    { Envelope(version, shape[1], shape[2], file, fileFolders) :
        version \in {0, 1},
        shape \in {<<TRUE, TRUE>>, <<TRUE, FALSE>>, <<FALSE, FALSE>>},
        file \in {<<FileSession(1, <<TabOther, TabScript>>, 2, Undefined),
                    FileSession(0, <<TabPlain>>, 0, Undefined)>>},
        fileFolders \in {<<>>, <<FileFolder(201)>>} }

DoImportEnvelope(envelopes) ==
    nextId <= MaxMessageIds /\ \E env \in envelopes, overwrite \in BOOLEAN,
                           fileSettings \in {<<>>, [useCompression |-> FALSE]} :
                            ImportEnvelope(env, overwrite, fileSettings)

NextImport ==
    \/ DoCreateSession({<<TabPlain, TabOther>>})
    \/ DoImportEnvelope(Envelopes)

SpecImport == Init /\ [][NextImport]_vars

\* the files the format test must refuse
MalformedEnvelopes ==
    {env \in Envelopes : env.version = 0 \/ ~env.hasSessions \/ ~env.isArray}

C17_ImportStep ==
    lastOp'.op = "importFromJSON" =>
    \A env \in MalformedEnvelopes, overwrite \in BOOLEAN,
       fileSettings \in {<<>>, [useCompression |-> FALSE]} :
        ImportEnvelope(env, overwrite, fileSettings) =>
            /\ ~reply'.success
            /\ reply'.errors >= 1
            /\ reply'.sessionsImported = 0
            /\ reply'.foldersImported = 0
            /\ UNCHANGED <<sessions, metadata, folders, settings>>

\* C17: importing a file whose envelope lacks a version or a sessions array
\* returns success = false with at least one error and no session or folder
\* imported, and leaves sessions, metadata, folders and settings unchanged.
C17_MalformedImportRefused == [][C17_ImportStep]_vars

\* a file with a version but no sessions array was refused by a store that
\* holds sessions and folders from earlier imports
C17_Witness ==
    /\ lastOp.op = "importFromJSON"
    /\ lastOp.result = "Invalid export file format"
    /\ reply.via = "call"
    /\ reply.errors = 1
    /\ ~reply.success
    /\ folders # <<>>
    /\ sessions # <<>>
    /\ ~settings.useCompression

\* ============================================================ lazy loading

\* restoreTabs with lazy = true, for one tab: chrome.tabs.create gives the
\* next tab id and setPendingLazyUrl stashes the tab's url under it
RestoreTabLazy(url) ==
    /\ Len(delivered) < MaxLazyTabs
    /\ pendingLazyUrl' = [pendingLazyUrl EXCEPT ![Len(delivered) + 1] = <<url>>]
    /\ delivered' = Append(delivered, 0)
    /\ UNCHANGED <<storeVars, crashVars, nextId, emLog, folders, searchIndex, reply,
                   activations, inFlight, outerVars>>
    /\ Did("setPendingLazyUrl", Len(delivered) + 1, 0)

\* onActivated up to the first await of getPendingLazyUrl: storage.session.get
\* resolves with the key's value; a call that finds none returns null
ActivatedGet(call, tab) ==
    /\ activations[call].pc = "idle"
    /\ activations' = [activations EXCEPT ![call] =
            IF pendingLazyUrl[tab] # Undefined
            THEN Activation("remove", tab, pendingLazyUrl[tab])
            ELSE Idle]
    /\ UNCHANGED <<storeVars, crashVars, nextId, emLog, folders, searchIndex, reply,
                   pendingLazyUrl, delivered, inFlight, outerVars>>
    /\ Did("getPendingLazyUrl", tab, IF pendingLazyUrl[tab] # Undefined THEN 1 ELSE 0)

\* the rest of getPendingLazyUrl and of the callback: storage.session.remove,
\* the url read earlier is returned and handed to chrome.tabs.update
ActivatedRemove(call) ==
    /\ activations[call].pc = "remove"
    /\ pendingLazyUrl' = [pendingLazyUrl EXCEPT ![activations[call].tab] = Undefined]
    /\ delivered' = [delivered EXCEPT ![activations[call].tab] = @ + 1]
    /\ activations' = [activations EXCEPT ![call] = Idle]
    /\ UNCHANGED <<storeVars, crashVars, nextId, emLog, folders, searchIndex, reply,
                   inFlight, outerVars>>
    /\ Did("tabs.update", activations[call].tab, 1)

DoRestoreTabLazy == \E url \in {UrlPlain, UrlOther} : RestoreTabLazy(url)

DoActivatedGet ==
    \E call \in Callbacks, tab \in 1..Len(delivered) : ActivatedGet(call, tab)

DoActivatedRemove == \E call \in Callbacks : ActivatedRemove(call)

NextLazy ==
    \/ DoRestoreTabLazy
    \/ DoActivatedGet
    \/ DoActivatedRemove
    \/ DoCreateSession({<<TabPlain>>})

SpecLazy == Init /\ [][NextLazy]_vars

\* C18: the url stashed for a tab is returned by at most one
\* getPendingLazyUrl call, also when two activation callbacks of the tab
\* overlap.
C18_DeliveredAtMostOnce == \A tab \in 1..Len(delivered) : delivered[tab] <= 1

\* ==================================================== overlapping sessions

\* createSession up to the await of its getStatistics: the session is saved
\* and the statistics are read
CreateSessionRead(call, window) ==
    LET tabs == processTabsForCapture(window, settings)
    IN  /\ inFlight[call] = NotRunning
        /\ Len(tabs) > 0
        /\ saveSession(NewSession(nextId, tabs, settings))
        /\ nextId' = nextId + 1
        /\ inFlight' = [inFlight EXCEPT ![call] =
                            Suspended("createSession", statistics, Len(tabs))]
        /\ UNCHANGED <<emergency, versions, settings, statistics, crashVars, emLog,
                       folders, searchIndex, reply, pendingLazyUrl, activations,
                       delivered, outerVars>>
        /\ Did("getStatistics", nextId, call)

\* the rest of createSession: updateStatistics spreads the totals computed
\* from the earlier read over the statistics stored now
CreateSessionWrite(call) ==
    /\ inFlight[call].op = "createSession"
    /\ statistics' = [statistics EXCEPT
            !.totalSessionsSaved = inFlight[call].stats.totalSessionsSaved + 1,
            !.totalTabsSaved = inFlight[call].stats.totalTabsSaved + inFlight[call].tabs]
    /\ inFlight' = [inFlight EXCEPT ![call] = NotRunning]
    /\ UNCHANGED <<sessions, metadata, emergency, versions, settings, crashVars,
                   nextId, emLog, folders, searchIndex, reply, pendingLazyUrl,
                   activations, delivered, outerVars>>
    /\ Did("createSession:updateStatistics", call, inFlight[call].tabs)

\* restoreSession up to the await of its getStatistics: created tabs were
\* opened, the access time is saved and the statistics are read
RestoreSessionRead(call, id, window, created) ==
    /\ inFlight[call] = NotRunning
    /\ id \in DOMAIN sessions
    /\ created \in 0..Len(TabsToRestore(getSession(id), window))
    /\ saveSession([getSession(id) EXCEPT !.lastAccessedAt = TRUE])
    /\ inFlight' = [inFlight EXCEPT ![call] =
                        Suspended("restoreSession", statistics, created)]
    /\ UNCHANGED <<emergency, versions, settings, statistics, crashVars, nextId,
                   emLog, folders, searchIndex, reply, pendingLazyUrl, activations,
                   delivered, outerVars>>
    /\ Did("getStatistics", id, call)

RestoreSessionWrite(call) ==
    /\ inFlight[call].op = "restoreSession"
    /\ statistics' = [statistics EXCEPT
            !.totalSessionsRestored = inFlight[call].stats.totalSessionsRestored + 1,
            !.totalTabsRestored = inFlight[call].stats.totalTabsRestored
                                  + inFlight[call].tabs]
    /\ inFlight' = [inFlight EXCEPT ![call] = NotRunning]
    /\ UNCHANGED <<sessions, metadata, emergency, versions, settings, crashVars,
                   nextId, emLog, folders, searchIndex, reply, pendingLazyUrl,
                   activations, delivered, outerVars>>
    /\ Did("restoreSession:updateStatistics", call, inFlight[call].tabs)

DoCreateSessionRead(windows) ==
    nextId <= MaxIds /\ \E call \in Writers, w \in windows : CreateSessionRead(call, w)

DoCreateSessionWrite == \E call \in Writers : CreateSessionWrite(call)

DoRestoreSessionRead(windows) ==
    /\ statistics.totalSessionsRestored <= MaxRestores
    /\ \E call \in Writers, id \in DOMAIN sessions, w \in windows,
          created \in 0..MaxTabs : RestoreSessionRead(call, id, w, created)

DoRestoreSessionWrite == \E call \in Writers : RestoreSessionWrite(call)

NextStatistics ==
    \/ DoCreateSessionRead({<<TabPlain>>, <<TabPlain, TabOther>>})
    \/ DoCreateSessionWrite
    \/ DoRestoreSessionRead({<<>>})
    \/ DoRestoreSessionWrite

SpecStatistics == Init /\ [][NextStatistics]_vars

C19_CountersStep ==
    /\ \A counter \in DOMAIN statistics : statistics'[counter] >= statistics[counter]
    /\ lastOp'.op = "createSession:updateStatistics" =>
            /\ statistics'.totalSessionsSaved = statistics.totalSessionsSaved + 1
            /\ statistics'.totalTabsSaved = statistics.totalTabsSaved + lastOp'.info
    /\ lastOp'.op = "restoreSession:updateStatistics" =>
            /\ statistics'.totalSessionsRestored = statistics.totalSessionsRestored + 1
            /\ statistics'.totalTabsRestored = statistics.totalTabsRestored + lastOp'.info

\* C19: under every interleaving of createSession and restoreSession the
\* four counters never decrease, a completed createSession adds 1 and its
\* tab count, and a completed restoreSession adds 1 and the tabs it created.
C19_CountersOnlyGrow == [][C19_CountersStep]_vars

\* ================================================================== search

\* searchSessions; a blank query reads the metadata and leaves the index
\* alone, any other query goes through getIndex, which rebuilds the index
\* when there is none or when INDEX_TTL has expired since it was built
SearchSessions(blank, expired) ==
    /\ searchIndex' = IF blank THEN searchIndex
                      ELSE IF searchIndex = <<>> \/ expired THEN <<metadata>>
                      ELSE searchIndex
    /\ UNCHANGED <<storeVars, crashVars, nextId, emLog, folders, reply, asyncVars,
                   outerVars>>
    /\ Did("searchSessions", 0, IF blank THEN 0 ELSE 1)

DoSearchSessions == \E blank \in BOOLEAN, expired \in BOOLEAN : SearchSessions(blank, expired)

NextSearch ==
    \/ DoMsgSaveSession({<<TabPlain>>})
    \/ DoMsgRestoreSession({<<>>})
    \/ DoMsgDeleteSession
    \/ DoMsgUpdateSettings({[useCompression |-> FALSE]})
    \/ DoCmdSaveSession({<<TabOther>>})
    \/ DoCmdRestoreLast({<<>>})
    \/ DoMenuSaveSession({<<TabPlain, TabOther>>})
    \/ DoSearchSessions

SpecSearch == Init /\ [][NextSearch]_vars

\* C20: every operation that changes the stored metadata invalidates the
\* search index before it completes, so the index a non-blank query uses is
\* never one built before the last change: it holds the metadata as stored.
C20_SearchUsesFreshIndex ==
    [][(lastOp'.op = "searchSessions" /\ lastOp'.info = 1) =>
            searchIndex' = <<metadata>>]_vars

\* ======================================= the manager page's sendMessage

\* what one chrome.runtime.sendMessage attempt can give: no response
\* (undefined), a rejected promise, a response with success true or false
AttemptResponses == {"undefined", "rejects", "success", "failure"}

\* the message of the error the loop catches for a response
ErrorOf(response) ==
    CASE response = "undefined" -> "No response from background"
      [] response = "rejects" -> "Could not establish connection"
      [] response = "failure" -> "Session not found"
      [] OTHER -> ""

\* sendMessage is called
SendMessageStart(type) ==
    /\ sender.pc \in {"idle", "returned", "thrown"}
    /\ sender' = Sending(type, "send", 0, <<>>, <<>>, "")
    /\ UNCHANGED <<storeVars, crashVars, nextId, emLog, folders, searchIndex, reply,
                   asyncVars, calc, storeCalls, browser>>
    /\ Did("sendMessage", 0, 0)

\* one turn of the loop up to its await: the request is sent and answered;
\* success returns, everything else is caught and, after the last attempt,
\* thrown
SendAttempt(response) ==
    /\ sender.pc = "send"
    /\ sender' =
        IF response = "success"
        THEN [sender EXCEPT !.pc = "returned", !.responses = Append(@, response)]
        ELSE [sender EXCEPT
                !.pc = IF sender.attempt < maxRetries - 1 THEN "wait" ELSE "thrown",
                !.responses = Append(@, response),
                !.lastError = ErrorOf(response)]
    /\ UNCHANGED <<storeVars, crashVars, nextId, emLog, folders, searchIndex, reply,
                   asyncVars, calc, storeCalls, browser>>
    /\ Did("runtime.sendMessage", 0, sender.attempt)

\* the setTimeout between two attempts has elapsed
Backoff ==
    /\ sender.pc = "wait"
    /\ sender' = [sender EXCEPT
            !.pc = "send",
            !.waits = Append(@, BackoffUnit * (sender.attempt + 1)),
            !.attempt = @ + 1]
    /\ UNCHANGED <<storeVars, crashVars, nextId, emLog, folders, searchIndex, reply,
                   asyncVars, calc, storeCalls, browser>>
    /\ Did("setTimeout", 0, sender.attempt)

DoSendAttempt == \E response \in AttemptResponses : SendAttempt(response)

DoSendMessageStart ==
    \E type \in {"GET_SESSIONS", "RESTORE_SESSION"} : SendMessageStart(type)

NextSender ==
    \/ DoSendMessageStart
    \/ DoSendAttempt
    \/ Backoff

SpecSender == Init /\ [][NextSender]_vars

\* the responses that mean the background gave no response
Silent == {"undefined", "rejects"}

\* C21: sendMessage sends at most 3 times, waiting 100 ms then 200 ms; it
\* re-sends only after an attempt that got no response, a well-formed
\* response ends the attempts, and after the last failed attempt it throws
\* the last error.
C21_ResendsOnlyOnSilence ==
    /\ Len(sender.responses) <= 3
    /\ sender.waits = SubSeq(<<100, 200>>, 1, Len(sender.waits))
    /\ \A i \in 1..Len(sender.responses) :
            (i < Len(sender.responses) \/ sender.pc = "wait") =>
                sender.responses[i] \in Silent
    /\ sender.pc = "thrown" =>
            sender.lastError = ErrorOf(sender.responses[Len(sender.responses)])

\* ============================================= compression at the JSON level

\* a JavaScript object: its members with a defined value, and the keys it
\* holds with the value undefined
JsObject(fields, undef) == [fields |-> fields, undef |-> undef]

\* JSON.stringify of an object: members whose value is undefined are left out
ObjectText(obj) == [json |-> "object", members |-> obj.fields]

\* JSON.stringify of a tab list
StringifyTabs(tabs) ==
    [json |-> "array", items |-> [i \in 1..Len(tabs) |-> ObjectText(tabs[i])]]

\* JSON.parse of the text of a tab list
ParseTabs(text) ==
    [i \in 1..Len(text.items) |-> JsObject(text.items[i].members, {})]

\* JSON.stringify and JSON.parse of a session, whose tabs member is a tab list
StringifySession(session) ==
    [json |-> "object",
     members |-> [session.fields EXCEPT !.tabs = StringifyTabs(@)]]

ParseSession(text) ==
    JsObject([text.members EXCEPT !.tabs = ParseTabs(@)], {})

\* strings as the LZString functions see them: the output of compressToUTF16
\* for a text, the empty string, a string that is no compressed value at
\* all, and one that decodes to characters that are not JSON
Utf16(kind, text) == [kind |-> kind, text |-> text]
NoText == [json |-> "none"]
compressToUTF16(text) == Utf16("lz", text)
InvalidStrings == {Utf16("empty", NoText), Utf16("garbage", NoText), Utf16("noise", NoText)}

\* LZString.decompressFromUTF16: null for the empty string and for garbage
Null == [json |-> "null"]
decompressFromUTF16(compressed) ==
    CASE compressed.kind = "lz" -> compressed.text
      [] compressed.kind = "noise" -> [json |-> "invalid"]
      [] OTHER -> Null

\* the outcome of a block: a returned value or a thrown error
Returned(value) == [threw |-> FALSE, value |-> value]
Thrown == [threw |-> TRUE, value |-> <<>>]

\* the try block of decompressTabs and decompressSession: `!json` throws,
\* JSON.parse throws on text that is not JSON
Decoded(compressed, parse(_)) ==
    LET json == decompressFromUTF16(compressed)
    IN  IF json = Null \/ json.json = "invalid" THEN Thrown ELSE Returned(parse(json))

\* (a try block without its catch)
Uncaught(outcome, fallback) == outcome

\* try { ... } catch { return fallback }
TryCatch(outcome, fallback) == IF outcome.threw THEN Returned(fallback) ELSE outcome

compressTabsText(tabs) == compressToUTF16(StringifyTabs(tabs))

decompressTabsText(compressed) == TryCatch(Decoded(compressed, ParseTabs), <<>>)

compressSessionText(session) == compressToUTF16(StringifySession(session))

decompressSessionText(compressed) == TryCatch(Decoded(compressed, ParseSession), Null)

JsonTabCandidates ==
    { JsObject(fields, undef) :
        fields \in
            [url : {"https://a.c/", "http://b.o/"}, pinned : BOOLEAN, groupId : {0 - 1}]
            \cup [url : {"https://a.c/"}, pinned : BOOLEAN, groupId : {7},
                  groupName : {"g"}],
        undef \in {{}, {"groupName"}} }

\* tabs as capture builds them: groupName absent, present as undefined, or set
JsonTabs ==
    { obj \in JsonTabCandidates : obj.undef \cap DOMAIN obj.fields = {} }

JsonTabLists == SeqsUpTo(JsonTabs, MaxJsonTabs)

JsonSessionCandidates ==
    { JsObject(fields, undef) :
        fields \in [id : {"s1"}, tabs : SeqsUpTo(JsonTabs, 1), version : {1, 2}]
                   \cup [id : {"s1"}, tabs : {<<>>}, version : {1},
                         compressedTabs : {"blob"}],
        undef \in {{}, {"compressedTabs"}} }

\* sessions as createSession builds them: compressedTabs undefined or set
JsonSessions ==
    { obj \in JsonSessionCandidates : obj.undef \cap DOMAIN obj.fields = {} }

TabsRoundTrip(tabs) ==
    /\ calc' = Call("decompressTabs(compressTabs)", tabs,
                    decompressTabsText(compressTabsText(tabs)))
    /\ UNCHANGED <<storeVars, crashVars, nextId, emLog, folders, searchIndex, reply,
                   asyncVars, sender, storeCalls, browser>>
    /\ Did("decompressTabs", 0, Len(tabs))

SessionRoundTrip(session) ==
    /\ calc' = Call("decompressSession(compressSession)", session,
                    decompressSessionText(compressSessionText(session)))
    /\ UNCHANGED <<storeVars, crashVars, nextId, emLog, folders, searchIndex, reply,
                   asyncVars, sender, storeCalls, browser>>
    /\ Did("decompressSession", 0, Len(session.fields.tabs))

DecompressInvalid(compressed) ==
    /\ \/ calc' = Call("decompressTabs", compressed, decompressTabsText(compressed))
       \/ calc' = Call("decompressSession", compressed,
                       decompressSessionText(compressed))
    /\ UNCHANGED <<storeVars, crashVars, nextId, emLog, folders, searchIndex, reply,
                   asyncVars, sender, storeCalls, browser>>
    /\ Did("decompress", 0, 0)

NextCompression ==
    \/ \E tabs \in JsonTabLists : TabsRoundTrip(tabs)
    \/ \E session \in JsonSessions : SessionRoundTrip(session)
    \/ \E compressed \in InvalidStrings : DecompressInvalid(compressed)

SpecCompression == Init /\ [][NextCompression]_vars

\* two tab lists agree field for field: a member that is undefined in one is
\* undefined or missing in the other
SameTabs(a, b) ==
    /\ Len(a) = Len(b)
    /\ \A i \in 1..Len(a) : a[i].fields = b[i].fields

JsArgument(type, url) == [type |-> type, url |-> url]

\* the guard `!url || typeof url !== 'string'` followed by the try block
isValidUrlOf(argument) == argument.type = "string" /\ isValidUrl(argument.url)

sanitizeUrlOf(argument) ==
    IF ~isValidUrlOf(argument) THEN NullUrl ELSE sanitizeUrl(argument.url)

\* protocols on the allow list, on the block list and on neither
ProbedProtocols ==
    {"http:", "https:", "chrome:", "chrome-extension:", "javascript:", "data:",
     "file:", "vbscript:", "about:", "ftp:", "ws:", "blob:", "mailto:"}

UrlArguments ==
    { JsArgument(type, Url(parses, IF parses THEN protocol ELSE "", cred, host)) :
        type \in {"string", "number", "null", "undefined", "object"},
        parses \in BOOLEAN, protocol \in ProbedProtocols, cred \in BOOLEAN,
        host \in {HostA} }

ValidateUrl(argument) ==
    /\ calc' = Call("isValidUrl", argument,
                    [valid |-> isValidUrlOf(argument),
                     sanitized |-> sanitizeUrlOf(argument)])
    /\ UNCHANGED <<storeVars, crashVars, nextId, emLog, folders, searchIndex, reply,
                   asyncVars, sender, storeCalls, browser>>
    /\ Did("isValidUrl", 0, 0)

NextValidation == \E argument \in UrlArguments : ValidateUrl(argument)

SpecValidation == Init /\ [][NextValidation]_vars

\* C23: isValidUrl is true only for a parsable string whose protocol is
\* http:, https:, chrome: or chrome-extension:, and false for the five
\* blocked protocols, for every protocol on neither list, for unparsable
\* strings and for non-strings; sanitizeUrl is null exactly when isValidUrl
\* is false.
C23_FailsClosed ==
    calc.fn = "isValidUrl" =>
        /\ calc.output.valid <=>
                /\ calc.input.type = "string"
                /\ calc.input.url.parses
                /\ calc.input.url.protocol
                        \in {"http:", "https:", "chrome:", "chrome-extension:"}
        /\ calc.input.url.protocol
                \in {"javascript:", "data:", "file:", "vbscript:", "about:"}
                => ~calc.output.valid
        /\ (calc.output.sanitized = NullUrl) <=> ~calc.output.valid

\* a parsable string with a protocol on neither list was rejected
C23_Witness ==
    /\ calc.fn = "isValidUrl"
    /\ calc.input.type = "string"
    /\ calc.input.url.parses
    /\ calc.input.url.protocol = "ftp:"
    /\ ~calc.output.valid
    /\ calc.output.sanitized = NullUrl

\* ============================================== overlapping storage calls

\* saveSession up to the await of getSessionMetadata: getAllSessions has
\* resolved and the session is put in the map that was read
SaveReadSessions(call, session) ==
    /\ storeCalls[call].pc = "idle"
    /\ storeCalls' = [storeCalls EXCEPT ![call] =
            StoreCall("saveSession", "readMetadata", session,
                      PutSession(sessions, session), <<>>)]
    /\ UNCHANGED <<storeVars, crashVars, nextId, emLog, folders, searchIndex, reply,
                   asyncVars, sender, calc, browser>>
    /\ Did("getAllSessions", session.id, call)

\* deleteSession up to the await of getSessionMetadata
DeleteReadSessions(call, id) ==
    /\ storeCalls[call].pc = "idle"
    /\ storeCalls' = [storeCalls EXCEPT ![call] =
            StoreCall("deleteSession", "readMetadata", id,
                      RemoveSession(sessions, id), <<>>)]
    /\ UNCHANGED <<storeVars, crashVars, nextId, emLog, folders, searchIndex, reply,
                   asyncVars, sender, calc, browser>>
    /\ Did("getAllSessions", id, call)

\* getSessionMetadata has resolved: the list that was read is updated, up to
\* the await of set
StoreReadMetadata(call) ==
    /\ storeCalls[call].pc = "readMetadata"
    /\ storeCalls' = [storeCalls EXCEPT ![call] =
            [@ EXCEPT !.pc = "set",
                      !.md = IF storeCalls[call].op = "saveSession"
                             THEN PutMetadata(metadata, storeCalls[call].arg)
                             ELSE DropMetadata(metadata, storeCalls[call].arg)]]
    /\ UNCHANGED <<storeVars, crashVars, nextId, emLog, folders, searchIndex, reply,
                   asyncVars, sender, calc, browser>>
    /\ Did("getSessionMetadata", 0, call)

\* (a write that stores the metadata list and not yet the sessions map)
MetadataWritten(call) == [all |-> sessions, md |-> storeCalls[call].md]

\* what the one storage.local.set of saveSession and deleteSession stores
BothWritten(call) == [all |-> storeCalls[call].all, md |-> storeCalls[call].md]

\* the set has resolved and the call returns
StoreSet(call) ==
    /\ storeCalls[call].pc = "set"
    /\ sessions' = BothWritten(call).all
    /\ metadata' = BothWritten(call).md
    /\ storeCalls' = [storeCalls EXCEPT ![call] = NoStoreCall]
    /\ UNCHANGED <<emergency, versions, settings, statistics, crashVars, nextId,
                   emLog, folders, searchIndex, reply, asyncVars, sender, calc,
                   browser>>
    /\ Did(storeCalls[call].op, 0, call)

\* sessions of one tab, by id and version
RacingSessions ==
    { Session(id, <<TabData(TabPlain)>>, Undefined, FALSE, 1, v, FALSE, FALSE) :
        id \in 1..2, v \in 1..2 }

DoSaveReadSessions(callers) ==
    \E call \in callers, session \in RacingSessions : SaveReadSessions(call, session)

DoDeleteReadSessions(callers) ==
    \E call \in callers, id \in 1..2 : DeleteReadSessions(call, id)

DoStoreReadMetadata == \E call \in StoreCallers : StoreReadMetadata(call)

DoStoreSet == \E call \in StoreCallers : StoreSet(call)

NextStoreRace ==
    \/ DoSaveReadSessions(StoreCallers)
    \/ DoDeleteReadSessions(StoreCallers)
    \/ DoStoreReadMetadata
    \/ DoStoreSet

SpecStoreRace == Init /\ [][NextStoreRace]_vars

\* C24: under any interleaving of overlapping saveSession and deleteSession
\* calls, whenever no call is in flight the ids of the metadata list are the
\* keys of the sessions map.
C24_QuiescentConsistency ==
    (\A call \in StoreCallers : storeCalls[call].pc = "idle") =>
        {metadata[i].id : i \in 1..Len(metadata)} = DOMAIN sessions

\* one call at a time
NextSingleSave ==
    \/ DoSaveReadSessions({1})
    \/ DoDeleteReadSessions({1})
    \/ DoStoreReadMetadata
    \/ DoStoreSet

SpecSingleSave == Init /\ [][NextSingleSave]_vars

\* C25: in no state during a saveSession that runs alone does the stored
\* metadata list hold an entry whose record the stored sessions map lacks.
C25_NoMetadataBeforeRecord ==
    \A i \in 1..Len(metadata) : metadata[i].id \in DOMAIN sessions

\* a saveSession of a new id is suspended at its write, and the store that
\* it read holds another session
C25_Witness ==
    /\ storeCalls[1].op = "saveSession"
    /\ storeCalls[1].pc = "set"
    /\ storeCalls[1].arg.id \notin DOMAIN sessions
    /\ sessions # <<>>
    /\ Len(storeCalls[1].md) = Len(metadata) + 1

\* ============================================================= restoreTabs

\* a saved tab as restoreTabs reads it: the fields of TabData it uses
\* (groupName stands for groupColor || groupName)
StoredTab(url, index, pinned, groupId, groupName) ==
    [ url |-> url, index |-> index, pinned |-> pinned, groupId |-> groupId,
      groupName |-> groupName ]

\* the page a lazily restored tab is created on
NewTabUrl == Url(TRUE, "chrome:", FALSE, <<"newtab">>)

\* the options of a restoreTabs call
RestoreOptions(lazy, newWindow, restorePinned, restoreGroups) ==
    [ lazy |-> lazy, newWindow |-> newWindow, restorePinned |-> restorePinned,
      restoreGroups |-> restoreGroups ]

\* the input order, kept as it is
InputOrder(tabs) == [k \in 1..Len(tabs) |-> k]

\* [...tabs].sort((a, b) => a.index - b.index), as the positions of the
\* input in sorted order; the sort is stable
sortedTabs(tabs) ==
    LET before(j, i) ==
            \/ tabs[j].index < tabs[i].index
            \/ tabs[j].index = tabs[i].index /\ j < i
        rank(i) == Cardinality({j \in 1..Len(tabs) : before(j, i)}) + 1
    IN  [k \in 1..Len(tabs) |-> CHOOSE i \in 1..Len(tabs) : rank(i) = k]

\* the url chrome.tabs.create is given: lazy tabs open on the new tab page
SavedUrl(options, tabData) == tabData.url
createOptionsUrl(options, tabData) ==
    IF options.lazy THEN NewTabUrl ELSE tabData.url

\* groupMapping.has / groupMapping.get
NeverHas(mapping, oldGroupId) == FALSE
groupMappingHas(mapping, oldGroupId) == \E pair \in mapping : pair[1] = oldGroupId
groupMappingGet(mapping, oldGroupId) ==
    (CHOOSE pair \in mapping : pair[1] = oldGroupId)[2]

\* the browser calls one pass of the loop makes for tabData, in order
CallsFor(tabData, options, mapping) ==
    <<"tabs.create">>
    \o (IF options.lazy THEN <<"storage.session.set">> ELSE <<>>)
    \o (IF options.restoreGroups /\ tabData.groupId # 0 - 1
        THEN <<"tabs.group">>
             \o (IF ~groupMappingHas(mapping, tabData.groupId) /\ tabData.groupName # ""
                 THEN <<"tabGroups.update">> ELSE <<>>)
        ELSE <<>>)

\* restoreTabs up to the loop: the window is created when asked for; a
\* rejected chrome.windows.create rejects the whole call
RestoreTabsStart(tabs, options, windowFails) ==
    /\ browser.pc = "idle"
    /\ windowFails => options.newWindow
    /\ browser' = [browser EXCEPT
            !.pc = IF windowFails THEN "thrown" ELSE "loop",
            !.input = tabs,
            !.options = options,
            !.queue = IF windowFails THEN <<>> ELSE sortedTabs(tabs),
            !.windows = IF options.newWindow /\ ~windowFails THEN 1 ELSE 0 ]
    /\ UNCHANGED <<storeVars, crashVars, nextId, emLog, folders, searchIndex, reply,
                   asyncVars, sender, calc, storeCalls>>
    /\ Did("restoreTabs", Len(tabs), 0)

\* one pass of the loop; rejected is the call of the pass that rejects
\* ("none" when all resolve). The calls before it have taken effect, the
\* rest of the pass is skipped and the catch logs the error.
RestoreNextTab(rejected) ==
    /\ browser.pc = "loop"
    /\ browser.queue # <<>>
    /\ LET position == Head(browser.queue)
           tabData == browser.input[position]
           options == browser.options
           calls == CallsFor(tabData, options, browser.groupMapping)
           ran(call) ==
               /\ \E k \in 1..Len(calls) : calls[k] = call
               /\ \A k \in 1..Len(calls) :
                      calls[k] = rejected =>
                          \E m \in 1..(k - 1) : calls[m] = call
           id == Len(browser.tabs) + 1
           createdTab ==
               [ id |-> id,
                 url |-> createOptionsUrl(options, tabData),
                 pinned |-> IF options.restorePinned THEN tabData.pinned ELSE FALSE,
                 windowId |-> browser.windows,
                 source |-> position ]
           has == groupMappingHas(browser.groupMapping, tabData.groupId)
           newGroupId == Len(browser.groups) + 1
           groupsAfter ==
               IF ~ran("tabs.group") THEN browser.groups
               ELSE IF has
               THEN [browser.groups EXCEPT
                        ![groupMappingGet(browser.groupMapping, tabData.groupId)].tabs
                            = @ \cup {id}]
               ELSE Append(browser.groups,
                        [ firstTab |-> id,
                          tabs |-> {id},
                          title |-> IF ran("tabGroups.update")
                                    THEN tabData.groupName ELSE "" ])
           mapped == /\ ran("tabs.group")
                     /\ ~has
                     /\ rejected # "tabGroups.update"
       IN  /\ rejected = "none" \/ \E k \in 1..Len(calls) : calls[k] = rejected
           /\ browser' = [browser EXCEPT
                   !.queue = Tail(@),
                   !.attempts = Append(@, position),
                   !.tabs = IF ran("tabs.create") THEN Append(@, createdTab) ELSE @,
                   !.createdTabIds = IF ran("tabs.create") THEN Append(@, id) ELSE @,
                   !.groups = groupsAfter,
                   !.groupMapping = IF mapped
                                    THEN @ \cup {<<tabData.groupId, newGroupId>>}
                                    ELSE @,
                   !.failed = IF rejected = "none" THEN @ ELSE Append(@, rejected) ]
           /\ delivered' = IF ran("tabs.create") THEN Append(delivered, 0) ELSE delivered
           /\ pendingLazyUrl' =
                   IF ran("storage.session.set")
                   THEN [pendingLazyUrl EXCEPT ![id] = <<tabData.url>>]
                   ELSE pendingLazyUrl
           /\ Did("restoreTab", position, IF rejected = "none" THEN 1 ELSE 0)
    /\ UNCHANGED <<storeVars, crashVars, nextId, emLog, folders, searchIndex, reply,
                   activations, inFlight, sender, calc, storeCalls>>

\* return createdTabIds
RestoreTabsReturn ==
    /\ browser.pc = "loop"
    /\ browser.queue = <<>>
    /\ browser' = [browser EXCEPT !.pc = "returned"]
    /\ UNCHANGED <<storeVars, crashVars, nextId, emLog, folders, searchIndex, reply,
                   asyncVars, sender, calc, storeCalls>>
    /\ Did("restoreTabs", Len(browser.createdTabIds), 1)

StoredPinned == StoredTab(UrlPlain, 0, TRUE, 0 - 1, "")
StoredWork == StoredTab(UrlOther, 1, FALSE, 7, "work")
StoredWorkToo == StoredTab(UrlThird, 2, FALSE, 7, "work")
StoredUnnamed == StoredTab(UrlPlain, 1, FALSE, 9, "")

RestorableTabs == {StoredPinned, StoredWork, StoredWorkToo, StoredUnnamed}

\* lists of distinct saved tabs, in any order
RestorableLists ==
    {tabs \in SeqsUpTo(RestorableTabs, MaxLazyTabs) :
        \A i, j \in 1..Len(tabs) : i # j => tabs[i] # tabs[j]}

BrowserCalls == {"tabs.create", "storage.session.set", "tabs.group", "tabGroups.update"}

DoRestoreTabsStart(lazies) ==
    \E tabs \in RestorableLists, lazy \in lazies, newWindow \in BOOLEAN,
       restoreGroups \in BOOLEAN, windowFails \in BOOLEAN :
        RestoreTabsStart(tabs, RestoreOptions(lazy, newWindow, TRUE, restoreGroups),
                         windowFails)

DoRestoreNextTab == \E rejected \in BrowserCalls \cup {"none"} : RestoreNextTab(rejected)

NextRestoreTabs ==
    \/ DoRestoreTabsStart(BOOLEAN)
    \/ DoRestoreNextTab
    \/ RestoreTabsReturn

SpecRestoreTabs == Init /\ [][NextRestoreTabs]_vars

\* C26: when restoreTabs returns, chrome.tabs.create has been called once
\* for every input tab, in ascending order of the tabs' index whatever the
\* input order and whatever calls rejected on the way, and createdTabIds
\* holds the ids of exactly the tabs the browser created.
C26_EveryTabAttemptedInOrder ==
    browser.pc = "returned" =>
        /\ \A position \in 1..Len(browser.input) :
               Cardinality({k \in 1..Len(browser.attempts) :
                                browser.attempts[k] = position}) = 1
        /\ Len(browser.attempts) = Len(browser.input)
        /\ \A k, m \in 1..Len(browser.attempts) :
               k < m => browser.input[browser.attempts[k]].index
                            <= browser.input[browser.attempts[m]].index
        /\ Len(browser.createdTabIds) = Len(browser.tabs)
        /\ \A k \in 1..Len(browser.tabs) : browser.createdTabIds[k] = browser.tabs[k].id
        /\ Len(browser.tabs) + Cardinality({k \in 1..Len(browser.failed) :
                                   browser.failed[k] = "tabs.create"})
               = Len(browser.input)

\* a list given in descending index order was restored; creating its first
\* tab failed, grouping its second failed, and the second tab was returned
C26_Witness ==
    /\ browser.pc = "returned"
    /\ Len(browser.input) = 2
    /\ browser.input[1].index > browser.input[2].index
    /\ browser.failed = <<"tabs.create", "tabs.group">>
    /\ Len(browser.createdTabIds) = 1

\* the ids of the created tabs whose saved tab had the old group id
TabsOfOldGroup(oldGroupId) ==
    {browser.tabs[k].id : k \in {m \in 1..Len(browser.tabs) :
        browser.input[browser.tabs[m].source].groupId = oldGroupId}}

\* C27: when restoreTabs returns from a call with restoreGroups in which no
\* browser call rejected, there is exactly one new group for every old group
\* id other than -1 among the restored tabs; it was created with the tab of
\* lowest index of that old group and holds all tabs of that old group; tabs
\* with group id -1 are in no group.
C27_OneGroupPerOldGroup ==
    (browser.pc = "returned" /\ browser.options.restoreGroups /\ browser.failed = <<>>) =>
        LET oldGroupIds == {browser.input[p].groupId : p \in 1..Len(browser.input)}
                               \ {0 - 1}
        IN  /\ Len(browser.groups) = Cardinality(oldGroupIds)
            /\ \A oldGroupId \in oldGroupIds :
                   \E g \in 1..Len(browser.groups) :
                       /\ browser.groups[g].tabs = TabsOfOldGroup(oldGroupId)
                       /\ browser.groups[g].firstTab \in TabsOfOldGroup(oldGroupId)
                       /\ \A id \in TabsOfOldGroup(oldGroupId) :
                              browser.input[browser.tabs[browser.groups[g].firstTab].source].index
                                  <= browser.input[browser.tabs[id].source].index
            /\ \A id \in TabsOfOldGroup(0 - 1), g \in 1..Len(browser.groups) :
                   id \notin browser.groups[g].tabs

\* two tabs of one old group, given in descending index order, were restored
\* into one new group
C27_Witness ==
    /\ browser.pc = "returned"
    /\ browser.options.restoreGroups
    /\ browser.failed = <<>>
    /\ Len(browser.input) = 2
    /\ browser.input[1].index > browser.input[2].index
    /\ browser.input[1].groupId = browser.input[2].groupId
    /\ Len(browser.groups) = 1
    /\ browser.groups[1].tabs = {1, 2}
    /\ browser.groups[1].title = "work"

\* ------------------------------------------- lazy restore and activation

\* the rest of the activation callback for a tab restoreTabs created:
\* storage.session.remove, then chrome.tabs.update navigates the tab to the
\* url that getPendingLazyUrl read
ActivatedUpdate(call) ==
    /\ activations[call].pc = "remove"
    /\ activations[call].tab \in 1..Len(browser.tabs)
    /\ pendingLazyUrl' = [pendingLazyUrl EXCEPT ![activations[call].tab] = Undefined]
    /\ delivered' = [delivered EXCEPT ![activations[call].tab] = @ + 1]
    /\ browser' = [browser EXCEPT
            !.tabs[activations[call].tab].url = activations[call].result[1]]
    /\ activations' = [activations EXCEPT ![call] = Idle]
    /\ UNCHANGED <<storeVars, crashVars, nextId, emLog, folders, searchIndex, reply,
                   inFlight, sender, calc, storeCalls>>
    /\ Did("tabs.update", activations[call].tab, 1)

\* activations that follow one another
DoActivatedGetAlone == \E tab \in 1..Len(delivered) : ActivatedGet(1, tab)

DoActivatedUpdate == ActivatedUpdate(1)

\* lazy restores into the current window
DoRestoreTabsLazy ==
    \E tabs \in RestorableLists :
        /\ \A k \in 1..Len(tabs) : tabs[k].groupId # 9
        /\ RestoreTabsStart(tabs, RestoreOptions(TRUE, FALSE, TRUE, TRUE), FALSE)

NextLazyRestore ==
    \/ DoRestoreTabsLazy
    \/ DoRestoreNextTab
    \/ RestoreTabsReturn
    \/ DoActivatedGetAlone
    \/ DoActivatedUpdate

SpecLazyRestore == Init /\ [][NextLazyRestore]_vars

\* the url saved for a created tab
RealUrl(id) == browser.input[browser.tabs[id].source].url

\* restoreTabs returns with the url of every created tab stashed under the
\* tab's id
C28_ReturnStepStashed ==
    (browser.pc = "loop" /\ browser'.pc = "returned"
        /\ \A k \in 1..Len(browser.failed) : browser.failed[k] # "storage.session.set") =>
        \A id \in 1..Len(browser.tabs) : pendingLazyUrl'[id] = <<RealUrl(id)>>

C28_LazyStep ==
    LET storageHeld ==
            \A k \in 1..Len(browser'.failed) : browser'.failed[k] # "storage.session.set"
        completes(id) ==
            \E call \in Callbacks :
                /\ activations[call].pc = "remove"
                /\ activations[call].tab = id
                /\ activations'[call].pc = "idle"
        existed(id) == id \in 1..Len(browser.tabs)
        urlOf(id) == browser.input'[browser.tabs'[id].source].url
    IN  \A id \in 1..Len(browser'.tabs) :
            \* created on the placeholder
            /\ ~existed(id) => browser'.tabs[id].url = NewTabUrl
            \* stashed, unless already navigated, when restoreTabs returns
            /\ (browser.pc = "loop" /\ browser'.pc = "returned" /\ storageHeld) =>
                   \/ pendingLazyUrl'[id] = <<urlOf(id)>>
                   \/ delivered'[id] >= 1 /\ browser'.tabs[id].url = urlOf(id)
            \* a completed activation that found the stash navigates to the url
            /\ (existed(id) /\ completes(id)) =>
                   /\ browser'.tabs[id].url = urlOf(id)
                   /\ pendingLazyUrl'[id] = Undefined
            \* an activation after the return finds the stash of a tab not yet navigated
            /\ (browser.pc = "returned" /\ storageHeld /\ existed(id) /\ delivered[id] = 0
                    /\ lastOp'.op = "getPendingLazyUrl" /\ lastOp'.id = id) =>
                   lastOp'.info = 1
            \* nothing else navigates the tab
            /\ (existed(id) /\ ~completes(id)) => browser'.tabs[id].url = browser.tabs[id].url

OpenWindow == <<TabPlain, TabOther>>

\* the duplicate filter switched off and on, a domain excluded and readmitted
ExclusionPayloads ==
    DuplicatePayloads \cup {[excludedDomains |-> <<HostA>>], [excludedDomains |-> <<>>]}

NextDuplicates ==
    \/ DoCreateSession({OpenWindow})
    \/ DoRestoreEveryTab({OpenWindow})
    \/ DoUpdateSettings(ExclusionPayloads)

SpecDuplicates == Init /\ [][NextDuplicates]_vars

\* the tabs of the session whose url no tab of the window shows
NotOpen(tabs, window) ==
    SelectSeq(tabs, LAMBDA t : \A i \in 1..Len(window) : window[i].url # t.url)

C29_RestoreStep ==
    (lastOp'.op = "restoreSession" /\ lastOp'.result = "ok") =>
        /\ settings.detectDuplicates =>
               lastOp'.info <= Len(NotOpen(getSession(lastOp'.id).tabs, OpenWindow))
        /\ ~settings.detectDuplicates =>
               lastOp'.info = Len(getSession(lastOp'.id).tabs)

\* C29: with detectDuplicates on, restoreSession creates no tab whose url a
\* tab of the current window shows; with it off, every tab of the session is
\* handed to restoreTabs.
C29_NoDuplicateOfOpenTab == [][C29_RestoreStep]_vars

\* =========================================================== updateSession

\* escapeHtml, character by character (of HTML_ENTITIES: & and <)
EscapedChar(c) ==
    IF c = "&" THEN <<"&", "a", "m", "p", ";">>
    ELSE IF c = "<" THEN <<"&", "l", "t", ";">>
    ELSE <<c>>
RECURSIVE escapeHtml(_)
escapeHtml(str) ==
    IF str = <<>> THEN <<>> ELSE EscapedChar(Head(str)) \o escapeHtml(Tail(str))

UnnamedSession == <<"U">>

\* names and descriptions are short texts without control characters
sanitizeSessionName(name) ==
    LET sanitized == escapeHtml(trim(name))
    IN  IF name = <<>> \/ sanitized = <<>> THEN UnnamedSession ELSE sanitized

sanitizeDescription(description) ==
    IF description = <<>> THEN <<>>
    ELSE LET trimmed == trim(description)
             RECURSIVE replaced(_)
             replaced(s) ==
                 IF s = <<>> THEN <<>>
                 ELSE (IF Head(s) = "<" THEN EscapedChar("<") ELSE <<Head(s)>>)
                          \o replaced(Tail(s))
         IN  replaced(trimmed)

sanitizeTag(tag) ==
    SelectSeq(toLowerCase(trim(tag)), LAMBDA c : c \notin {"<", ">", "'", "\"", "&"})

\* sanitized, empty tags dropped, each tag once
sanitizeTags(tags) ==
    LET mapped == [i \in 1..Len(tags) |-> sanitizeTag(tags[i])]
        RECURSIVE unique(_, _)
        unique(list, seen) ==
            IF list = <<>> THEN <<>>
            ELSE IF Head(list) = <<>> \/ Head(list) \in seen
                 THEN unique(Tail(list), seen)
                 ELSE <<Head(list)>> \o unique(Tail(list), seen \cup {Head(list)})
    IN  unique(mapped, {})

\* the name, description, tags and folder of a session, and its updatedAt
WithDetails(session, details) ==
    [k \in DOMAIN session \cup DOMAIN details |->
        IF k \in DOMAIN details THEN details[k] ELSE session[k]]

\* (an update that writes all four fields, the ones not given as undefined)
applyUpdatesToAll(session, updates) ==
    WithDetails(session,
        [ name |-> IF "name" \in DOMAIN updates
                   THEN sanitizeSessionName(updates.name) ELSE session.name,
          description |-> IF "description" \in DOMAIN updates
                          THEN sanitizeDescription(updates.description) ELSE Undefined,
          tags |-> IF "tags" \in DOMAIN updates
                   THEN sanitizeTags(updates.tags) ELSE <<>>,
          folderId |-> IF "folderId" \in DOMAIN updates
                       THEN updates.folderId ELSE Undefined ])

\* the fields updateSession assigns: those of updates that are not undefined
applyUpdates(session, updates) ==
    [k \in DOMAIN session |->
        IF k \notin DOMAIN updates THEN session[k]
        ELSE IF k = "name" THEN sanitizeSessionName(updates.name)
        ELSE IF k = "description" THEN sanitizeDescription(updates.description)
        ELSE IF k = "tags" THEN sanitizeTags(updates.tags)
        ELSE updates.folderId]

\* updateSession(id, updates) at time timestamp
UpdateSessionWith(id, updates, timestamp) ==
    IF id \notin DOMAIN sessions
    THEN Abort("updateSession", id, 0 - 1, "ok")
    ELSE /\ LET session == [applyUpdates(getSession(id), updates) EXCEPT
                                !.updatedAt = timestamp,
                                !.version = @ + 1]
            IN  saveSession(Recompressed(session, settings))
         /\ UNCHANGED <<emergency, versions, settings, statistics, crashVars, nextId, emLog>>
         /\ Did("updateSession", id, 0)

\* sessions as createSession builds them under the settings st: session 1
\* in several shapes, session 2 in one
NamedSessions(st) ==
    { WithDetails(NewSession(1, [i \in 1..Len(w) |-> TabData(w[i])], st),
                  [ name |-> <<"n">>, description |-> description, tags |-> <<<<"t">>>>,
                    folderId |-> <<"f">>, updatedAt |-> 1 ]) :
        w \in {<<TabPlain>>, <<TabPlain, TabOther>>},
        description \in {Undefined, <<"d">>} }
    \cup
    { WithDetails(NewSession(2, <<TabData(TabOther)>>, st),
                  [ name |-> <<"o">>, description |-> Undefined, tags |-> <<>>,
                    folderId |-> Undefined, updatedAt |-> 1 ]) }

\* the updates a caller sends: none, one, some or all of the four fields
SessionUpdates ==
    LET values == [ name : {<<" ", "m", " ">>, <<" ">>},
                    description : {<<"e", "<">>},
                    tags : {<<<<"A">>, <<"a", " ">>, <<"&">>>>},
                    folderId : {<<"g">>} ]
    IN  UNION {{[k \in keys |-> v[k]] : v \in values} :
                  keys \in {{}, {"name"}, {"folderId"}, {"description", "tags"},
                            {"name", "description", "tags", "folderId"}}}

\* the ids the caller names: a stored session and an id that is not stored
UpdatedIds == {0, 1}

Timestamps == {2}

DoStoreNamed == \E session \in NamedSessions(settings) : StoreSaveSession(session)
    /\ UNCHANGED auxVars

DoUpdateSessionWith ==
    \E id \in UpdatedIds, updates \in SessionUpdates, timestamp \in Timestamps :
        /\ id \in DOMAIN sessions => sessions[id].version < MaxVersion
        /\ UpdateSessionWith(id, updates, timestamp)
    /\ UNCHANGED auxVars

\* the compression policy changed between save and update
PolicyPayloads ==
    {[compressionThreshold |-> 2], [useCompression |-> FALSE], [useCompression |-> TRUE]}

NextUpdate ==
    \/ DoStoreNamed
    \/ DoUpdateSessionWith
    \/ DoUpdateSettings(PolicyPayloads)

SpecUpdate == Init /\ [][NextUpdate]_vars

EncodingFields == {"tabs", "compressedTabs", "isCompressed"}

C30_UpdateStep ==
    \A id \in UpdatedIds, updates \in SessionUpdates, timestamp \in Timestamps :
        (lastOp'.op = "updateSession" /\ lastOp'.id = id
            /\ UpdateSessionWith(id, updates, timestamp)) =>
            IF id \notin DOMAIN sessions
            THEN /\ storeVars' = storeVars
                 /\ lastOp'.info = 0 - 1
            ELSE /\ DOMAIN sessions' = DOMAIN sessions
                 /\ \A other \in DOMAIN sessions \ {id} : sessions'[other] = sessions[other]
                 /\ DOMAIN sessions'[id] = DOMAIN sessions[id]
                 /\ \A k \in DOMAIN sessions[id] \ (EncodingFields \cup {"updatedAt", "version"}) :
                        k \notin DOMAIN updates => sessions'[id][k] = sessions[id][k]
                 /\ sessions'[id].version = sessions[id].version + 1
                 /\ sessions'[id].updatedAt = timestamp
                 /\ HeldTabs(sessions'[id]) = HeldTabs(sessions[id])
                 /\ <<emergency, versions, settings, statistics>>'
                        = <<emergency, versions, settings, statistics>>

\* C30: updateSession on an absent id returns null and leaves the store as
\* it is; on a stored id it changes, of that session only, the fields given
\* among name, description, tags and folderId, updatedAt, version (by
\* exactly +1) and the tab encoding, and the decoded tabs stay the same.
C30_UpdateChangesOnlyGivenFields == [][C30_UpdateStep]_vars

\* an update that gave only a name was applied to a session with a
\* description and a folder, and compressed the session's two tabs
C30_Witness ==
    /\ lastOp.op = "updateSession"
    /\ lastOp.id = 1
    /\ lastOp.info = 0
    /\ 1 \in DOMAIN sessions
    /\ sessions[1].version = 2
    /\ sessions[1].name = <<"m">>
    /\ sessions[1].description = <<"d">>
    /\ sessions[1].folderId = <<"f">>
    /\ sessions[1].isCompressed
    /\ sessions[1].tabs = <<>>
    /\ Len(decompressTabs(sessions[1].compressedTabs)) = 2

\* ==================================================== import and folders

\* a session of an import file that sits in a folder (0: in none)
FiledSession(id, tabs, folderId) ==
    MergedSettings(FileSession(id, tabs, 1, Undefined), [folderId |-> folderId])

NamedFolder(id, name) == [id |-> id, name |-> name]

\* export files with folders; session 1 and folder 201 collide with what
\* the store holds after a create and a first import
FolderEnvelopes ==
    { Envelope(1, TRUE, TRUE, file, fileFolders) :
        file \in { <<FiledSession(1, <<TabOther>>, 201)>>,
                   <<FiledSession(101, <<TabPlain>>, 201),
                     FiledSession(1, <<TabPlain, TabOther>>, 202)>> },
        fileFolders \in { <<NamedFolder(201, "a")>>,
                          <<NamedFolder(201, "b"), NamedFolder(202, "c")>> } }

DoImportFolders ==
    nextId <= MaxIds /\ \E env \in FolderEnvelopes, overwrite \in BOOLEAN :
                            ImportEnvelope(env, overwrite, <<>>)

NextImportFolders ==
    \/ DoCreateSession({<<TabPlain, TabOther>>})
    \/ DoImportFolders

SpecImportFolders == Init /\ [][NextImportFolders]_vars

C31_ImportStep ==
    \A env \in FolderEnvelopes :
        (lastOp'.op = "importFromJSON" /\ ImportEnvelope(env, FALSE, <<>>)) =>
            LET oldFolderIds == {folders[i].id : i \in 1..Len(folders)}
                added == (Len(folders) + 1)..Len(folders')
                newIds == DOMAIN sessions' \ DOMAIN sessions
            IN  \* what was stored stays as it was
                /\ \A id \in DOMAIN sessions :
                       id \in DOMAIN sessions' /\ sessions'[id] = sessions[id]
                /\ Len(folders') >= Len(folders)
                /\ \A i \in 1..Len(folders) : folders'[i] = folders[i]
                \* every incoming session and folder is stored, a colliding
                \* one under an id that was not in use
                /\ Cardinality(newIds) = Len(env.sessions)
                /\ \A k \in 1..Len(env.sessions) :
                       \E id \in newIds :
                           /\ sessions'[id].tabs
                                  = [i \in 1..Len(env.sessions[k].tabs) |->
                                         env.sessions[k].tabs[i]]
                           /\ env.sessions[k].id \notin DOMAIN sessions
                                  => id = env.sessions[k].id
                /\ \A k \in 1..Len(env.folders) :
                       \E j \in added :
                           /\ folders'[j].name = env.folders[k].name
                           /\ folders'[j].id \notin oldFolderIds
                           /\ env.folders[k].id \notin oldFolderIds
                                  => folders'[j].id = env.folders[k].id
                           \* the sessions of that folder point to it
                           /\ \A m \in 1..Len(env.sessions) :
                                  env.sessions[m].folderId = env.folders[k].id =>
                                      \E id \in newIds :
                                          /\ sessions'[id].tabs = env.sessions[m].tabs
                                          /\ sessions'[id].folderId = folders'[j].id

\* C31: importFromJSON without overwriteExisting leaves every session and
\* folder that was stored before as it was; an incoming session or folder
\* whose id is in use is stored under an id that was not in use, and the
\* incoming sessions of a re-identified folder point to its new id.
C31_ImportKeepsWhatWasStored == [][C31_ImportStep]_vars

\* a file was imported a second time: its folder 201 and its session 1 were
\* stored again under fresh ids, the session pointing to the new folder
C31_Witness ==
    /\ lastOp.op = "importFromJSON"
    /\ Len(folders) = 2
    /\ folders[1].id = 201
    /\ folders[2].id # 201
    /\ folders[2].name = folders[1].name
    /\ \E id \in DOMAIN sessions \ {1} :
           /\ sessions[id].tabs = sessions[1].tabs
           /\ "folderId" \in DOMAIN sessions[id]
           /\ sessions[id].folderId = folders[2].id
    /\ "folderId" \in DOMAIN sessions[1]
    /\ sessions[1].folderId = 201

\* ================================================= createEmergencySession

\* createEmergencySession called on its own; with nothing to capture it
\* throws before any write
CallCreateEmergencySession(window) ==
    IF Len(processTabsForCapture(window, settings)) = 0
    THEN Abort("createEmergencySession", 0, Len(window), "No tabs to backup")
    ELSE /\ CreateEmergencySession(window)
         /\ UNCHANGED <<sessions, metadata, versions, settings, statistics, crashVars>>
         /\ Did("createEmergencySession", nextId, Len(window))

DoCallCreateEmergencySession ==
    nextId <= MaxEmergencySaves
    /\ \E w \in {<<TabPlain>>, <<TabPlain, TabOther>>, <<TabScript>>} :
            CallCreateEmergencySession(w)
    /\ UNCHANGED auxVars

\* the compression policy and the size of the emergency list move
EmergencyPayloads ==
    {[compressionThreshold |-> 1], [useCompression |-> FALSE], [useCompression |-> TRUE],
     [maxEmergencySessions |-> 2]}

NextEmergencyFrame ==
    \/ DoCreateSession({<<TabPlain, TabOther>>})
    \/ DoCallCreateEmergencySession
    \/ DoUpdateSettings(EmergencyPayloads)

SpecEmergencyFrame == Init /\ [][NextEmergencyFrame]_vars

C32_EmergencyStep ==
    lastOp'.op = "createEmergencySession" =>
        /\ sessions' = sessions
        /\ metadata' = metadata
        /\ statistics' = statistics
        /\ lastOp'.result = "ok" =>
               /\ emergency' # <<>>
               /\ emergency'[1].id = lastOp'.id
               /\ emergency'[1].isEmergency
               /\ ~emergency'[1].isCompressed
               /\ emergency'[1].compressedTabs = Undefined
               /\ Len(emergency'[1].tabs) = emergency'[1].tabCount
               /\ emergency'[1].tabCount >= 1
        /\ lastOp'.result # "ok" => emergency' = emergency

\* C32: createEmergencySession leaves the sessions map, the metadata list
\* and the statistics as they are, and the session it puts first in the
\* emergency list has isEmergency = true and isCompressed = false with its
\* tabs held plain, whatever the tab count and the compression settings.
C32_EmergencyWritesOnlyItsList == [][C32_EmergencyStep]_vars

\* an emergency session of two tabs was stored plain while compression was
\* on with a threshold of one tab, next to a compressed normal session
C32_Witness ==
    /\ lastOp.op = "createEmergencySession"
    /\ lastOp.result = "ok"
    /\ settings.useCompression
    /\ settings.compressionThreshold = 1
    /\ Len(emergency[1].tabs) = 2
    /\ ~emergency[1].isCompressed
    /\ \E id \in DOMAIN sessions : sessions[id].isCompressed

\* ===================================================== domain patterns

\* hostnames and patterns, letter by letter
ProbedHosts ==
    { <<"a", ".", "c">>, <<"A", ".", "C">>, <<"b", ".", "a", ".", "c">>,
      <<"x", "a", ".", "c">>, <<"b", ".", "o">>, <<"c">>, <<"a", ".", "c", ".", "o">>,
      <<"o", ".", "b", ".", "a", ".", "c">>, <<"x", "o">>, <<"o">> }

ProbedDomains == { <<"a", ".", "c">>, <<"A", ".", "c">>, <<"c">>, <<"b", ".", "o">>, <<"o">> }

ProbedPatterns ==
    ProbedDomains
    \cup { <<"*", ".">> \o d : d \in ProbedDomains }
    \cup { <<" ", "*", ".">> \o d \o <<" ">> : d \in {<<"a", ".", "c">>} }

\* matchesDomainPattern called on a url that parses with the given hostname,
\* or on a string that is no url
MatchPattern(url, pattern) ==
    /\ calc' = Call("matchesDomainPattern", <<url, pattern>>,
                    Returned(matchesDomainPattern(url, pattern)))
    /\ UNCHANGED <<storeVars, crashVars, nextId, emLog, folders, searchIndex, reply,
                   asyncVars, sender, storeCalls, browser>>
    /\ Did("matchesDomainPattern", 0, 0)

DoMatchPattern ==
    \E url \in {Url(TRUE, "https:", FALSE, host) : host \in ProbedHosts} \cup {UrlGarbage},
       pattern \in ProbedPatterns :
        MatchPattern(url, pattern)

NextPatterns == DoMatchPattern

SpecPatterns == Init /\ [][NextPatterns]_vars

\* host is domain or a subdomain of it
AtLabelBoundary(host, domain) ==
    \/ host = domain
    \/ /\ Len(host) >= Len(domain) + 1
       /\ SubSeq(host, Len(host) - Len(domain), Len(host)) = <<".">> \o domain

\* C33: matchesDomainPattern(url, '*.D') is true exactly when the hostname
\* is D or ends with '.D', compared without regard to case; a pattern
\* without wildcard matches the identical hostname only; a string that is no
\* url matches nothing.
C33_WildcardAtLabelBoundary ==
    calc.fn = "matchesDomainPattern" =>
        LET url == calc.input[1]
            pattern == trim(toLowerCase(calc.input[2]))
            host == toLowerCase(url.host)
            wildcard == Len(pattern) >= 2 /\ SubSeq(pattern, 1, 2) = <<"*", ".">>
        IN  calc.output.value =
                /\ url.parses
                /\ IF wildcard
                   THEN AtLabelBoundary(host, SubSeq(pattern, 3, Len(pattern)))
                   ELSE host = pattern

\* ===================================================== repeated initialize

C34_InitializeStep ==
    (lastOp'.op = "initialize" /\ lastOp.op \in {"initialize", "performCleanShutdown"}) =>
        wasCrashDetected' = wasCrashDetected

\* C34: an initialize that directly follows another initialize of the same
\* browser run (onInstalled, then onStartup), or that follows
\* performCleanShutdown, does not set the crash marker.
C34_MarkerOnlyAfterUncleanEnd == [][C34_InitializeStep]_vars

\* ============================================ overlapping settings updates

\* the UPDATE_SETTINGS handler with an autoSaveInterval, await by await. A
\* handler in flight is held in storeCalls: its interval in arg, the settings
\* its getSettings read in all.

\* saveSettings up to its write: getSettings has resolved
SettingsRead(call, interval) ==
    /\ storeCalls[call].pc = "idle"
    /\ storeCalls' = [storeCalls EXCEPT ![call] =
            StoreCall("updateSettings", "writeSettings", interval, settings, <<>>)]
    /\ UNCHANGED <<storeVars, crashVars, nextId, emLog, folders, searchIndex, reply,
                   asyncVars, sender, calc, browser>>
    /\ Did("getSettings", 0, call)

\* the write of saveSettings: { ...current, ...settings }
SettingsWrite(call) ==
    /\ storeCalls[call].pc = "writeSettings"
    /\ settings' = MergedSettings(storeCalls[call].all,
                                  [autoSaveInterval |-> storeCalls[call].arg])
    /\ storeCalls' = [storeCalls EXCEPT ![call].pc = "clear"]
    /\ UNCHANGED <<sessions, metadata, emergency, versions, statistics, crashVars,
                   nextId, emLog, folders, searchIndex, reply, asyncVars, sender, calc,
                   browser>>
    /\ Did("saveSettings", 0, call)

\* startEmergencyBackupAlarm up to its create: chrome.alarms.clear has
\* resolved; an interval <= 0 returns here
AlarmClear(call) ==
    /\ storeCalls[call].pc = "clear"
    /\ alarms' = AlarmsCleared(alarms, alarmName)
    /\ storeCalls' = [storeCalls EXCEPT ![call] =
            IF storeCalls[call].arg <= 0 THEN NoStoreCall
            ELSE [storeCalls[call] EXCEPT !.pc = "create"]]
    /\ UNCHANGED <<storeVars, crashMarker, lastBackup, runningFlag, nextId, emLog,
                   folders, searchIndex, reply, asyncVars, sender, calc, browser>>
    /\ Did("alarms.clear", 0, call)

\* chrome.alarms.create, and the handler answers
AlarmCreate(call) ==
    /\ storeCalls[call].pc = "create"
    /\ alarms' = AlarmsCreated(alarms, alarmName, storeCalls[call].arg)
    /\ storeCalls' = [storeCalls EXCEPT ![call] = NoStoreCall]
    /\ UNCHANGED <<storeVars, crashMarker, lastBackup, runningFlag, nextId, emLog,
                   folders, searchIndex, reply, asyncVars, sender, calc, browser>>
    /\ Did("alarms.create", 0, call)

Intervals == {0, 5, 10}

DoSettingsRead == \E call \in StoreCallers, interval \in Intervals : SettingsRead(call, interval)

DoSettingsWrite == \E call \in StoreCallers : SettingsWrite(call)

DoAlarmClear == \E call \in StoreCallers : AlarmClear(call)

DoAlarmCreate == \E call \in StoreCallers : AlarmCreate(call)

NextSettingsRace ==
    \/ DoSettingsRead
    \/ DoSettingsWrite
    \/ DoAlarmClear
    \/ DoAlarmCreate

SpecSettingsRace == Init /\ [][NextSettingsRace]_vars

\* C35: whenever the last UPDATE_SETTINGS handler has finished and none is
\* in flight, the emergency-backup alarm is scheduled exactly when the
\* stored autoSaveInterval is above 0, with that interval as its period.
C35_AlarmFollowsStoredInterval ==
    (/\ \A call \in StoreCallers : storeCalls[call].pc = "idle"
     /\ lastOp.op \in {"alarms.clear", "alarms.create"}) =>
        BackupAlarms =
            IF settings.autoSaveInterval > 0
            THEN {[name |-> alarmName, periodInMinutes |-> settings.autoSaveInterval]}
            ELSE {}

\* ============================ a search overlapping a mutating handler

\* searchSessions with a non-blank query, split at the await of buildIndex.
\* storeCalls[call] holds the call in flight, the metadata getSessionMetadata
\* resolved with in all.

\* searchSessions up to the await: getIndex answers with the cached index
\* unless there is none or INDEX_TTL has expired, and then buildIndex asks
\* for the metadata
SearchBegin(call, expired) ==
    /\ storeCalls[call].pc = "idle"
    /\ IF searchIndex = <<>> \/ expired
         THEN /\ storeCalls' = [storeCalls EXCEPT ![call] =
                    StoreCall("searchSessions", "getSessionMetadata", 0, <<>>, <<>>)]
              /\ Did("getIndex", call, <<>>)
         ELSE /\ UNCHANGED storeCalls
              /\ Did("searchSessions", call, searchIndex)
    /\ UNCHANGED <<storeVars, crashVars, nextId, emLog, folders, searchIndex, reply,
                   asyncVars, sender, calc, browser>>

\* chrome.storage.local.get answers the read of buildIndex
SearchRead(call) ==
    /\ storeCalls[call].pc = "getSessionMetadata"
    /\ storeCalls' = [storeCalls EXCEPT ![call] =
            StoreCall("searchSessions", "index", 0, metadata, <<>>)]
    /\ UNCHANGED <<storeVars, crashVars, nextId, emLog, folders, searchIndex, reply,
                   asyncVars, sender, calc, browser>>
    /\ Did("getSessionMetadata", call, <<>>)

\* buildIndex after its await: the index over what was read is cached, and
\* searchSessions searches it
SearchIndexed(call) ==
    /\ storeCalls[call].pc = "index"
    /\ searchIndex' = <<storeCalls[call].all>>
    /\ storeCalls' = [storeCalls EXCEPT ![call] = NoStoreCall]
    /\ UNCHANGED <<storeVars, crashVars, nextId, emLog, folders, reply, asyncVars,
                   sender, calc, browser>>
    /\ Did("searchSessions", call, <<storeCalls[call].all>>)

DoSearchBegin == \E call \in StoreCallers, expired \in BOOLEAN : SearchBegin(call, expired)
DoSearchRead == \E call \in StoreCallers : SearchRead(call)
DoSearchIndexed == \E call \in StoreCallers : SearchIndexed(call)

NextSearchRace ==
    \/ DoMsgSaveSession({<<TabPlain>>, <<TabOther>>})
    \/ DoMsgDeleteSession
    \/ DoSearchBegin
    \/ DoSearchRead
    \/ DoSearchIndexed

SpecSearchRace == Init /\ [][NextSearchRace]_vars

\* a query that getIndex answers from the cache: no build was started for it
C36_CachedQueryStep ==
    (lastOp'.op = "searchSessions" /\ storeCalls' = storeCalls) =>
        lastOp'.info = <<metadata>>

\* C36: the handlers of this specification write the metadata and call
\* invalidateCache in one step, so a query that starts finds every mutation
\* complete; the index it is answered from, when it is the cached one, was
\* built from the metadata as stored since the last mutation, whatever
\* builds overlapped the mutations.
C36_NoStaleIndexAfterInvalidate == [][C36_CachedQueryStep]_vars

\* ================================================ export and import again

\* Object.values(sessions): the stored sessions, by ascending id
ObjectValues(all) ==
    [ i \in 1..Cardinality(DOMAIN all) |->
        all[CHOOSE id \in DOMAIN all : Cardinality({j \in DOMAIN all : j < id}) = i - 1] ]

\* a session as exportToJSON writes it: the stored record
Exported(session) == session

\* exportToJSON without settings, read back by JSON.parse: the sessions as
\* stored, and the folders; calc holds the file
ExportToJSON ==
    /\ calc' = Call("exportToJSON", <<>>,
                    Returned(Envelope(1, TRUE, TRUE,
                                      [i \in 1..Cardinality(DOMAIN sessions) |->
                                            Exported(ObjectValues(sessions)[i])],
                                      folders)))
    /\ UNCHANGED <<storeVars, crashVars, nextId, emLog, folders, searchIndex, reply,
                   asyncVars, sender, storeCalls, browser>>
    /\ Did("exportToJSON", 0, Cardinality(DOMAIN sessions))

\* storageService.clear: chrome.storage.local is emptied
StorageClear ==
    /\ sessions' = <<>>
    /\ metadata' = <<>>
    /\ emergency' = <<>>
    /\ versions' = <<>>
    /\ settings' = DEFAULT_SETTINGS
    /\ statistics' = EmptyStatistics
    /\ folders' = <<>>
    /\ crashMarker' = FALSE
    /\ lastBackup' = FALSE
    /\ UNCHANGED <<runningFlag, alarms, nextId, emLog, searchIndex, reply, asyncVars,
                   outerVars>>
    /\ Did("clear", 0, 0)

\* the file exportToJSON gave last
ExportedFile == calc.output.value

DoExportToJSON == sessions # <<>> /\ ExportToJSON

DoStorageClear == sessions # <<>> /\ calc.fn = "exportToJSON" /\ StorageClear

\* importFromJSON of the exported file into the emptied store
DoImportExported ==
    /\ calc.fn = "exportToJSON"
    /\ sessions = <<>>
    /\ \E overwrite \in BOOLEAN : ImportEnvelope(ExportedFile, overwrite, <<>>)

NextExportImport ==
    \/ DoCreateSession({<<TabPlain>>, <<TabPlain, TabOther>>})
    \/ DoUpdateSettings({[compressionThreshold |-> 2]})
    \/ DoExportToJSON
    \/ DoStorageClear
    \/ DoImportExported

SpecExportImport == Init /\ [][NextExportImport]_vars

\* the tab list a session record stands for
TabListOf(session) ==
    IF session.isCompressed /\ session.compressedTabs # Undefined
    THEN decompressTabs(session.compressedTabs)
    ELSE session.tabs

C37_ImportStep ==
    lastOp'.op = "importFromJSON" =>
        \A i \in 1..Len(ExportedFile.sessions) :
            LET exported == ExportedFile.sessions[i]
            IN  /\ exported.id \in DOMAIN sessions'
                /\ TabListOf(sessions'[exported.id]) = TabListOf(exported)

\* C37: importing what exportToJSON wrote into an empty store stores every
\* exported session again under its id with its tab list, the sessions
\* stored compressed included.
C37_ExportImportRoundTrip == [][C37_ImportStep]_vars

\* ===================================== a version restored after a delete

NextDeletedVersions ==
    \/ DoCreateSession({<<TabPlain>>})
    \/ DoUpdateSession
    \/ DoCreateVersion
    \/ DoDeleteSession
    \/ DoRestoreVersion

SpecDeletedVersions == Init /\ [][NextDeletedVersions]_vars

\* restoreVersion of a session that is not stored: in this specification a
\* session with a version history that is not in the store was deleted
C38_RestoreVersionStep ==
    (lastOp'.op = "restoreVersion" /\ lastOp'.id \notin DOMAIN sessions) =>
        /\ lastOp'.id \notin DOMAIN sessions'
        /\ \A i \in 1..Len(metadata') : metadata'[i].id # lastOp'.id

\* C38: after deleteSession(id) the id stays out of the sessions map and of
\* the metadata until a session is stored by create, import, duplicate,
\* merge or split: a restoreVersion(id, versionId) called after the delete
\* does not bring the id back.
C38_DeletedStaysDeleted == [][C38_RestoreVersionStep]_vars

\* ======================================== sessions without a single tab

NextStoredTabs ==
    \/ DoCreateSession({<<TabPlain>>, <<TabScript>>})
    \/ DoMergeSessions
    \/ DoSplitSession
    \/ DoDuplicateSession
    \/ DoUpdateSession
    \/ DoImport({<<FileSession(1, <<TabOther, TabScript>>, 1, Undefined),
                   FileSession(101, <<TabFtp>>, 1, Undefined)>>})

SpecStoredTabs == Init /\ [][NextStoredTabs]_vars

\* C39: every session of the normal store holds at least one tab, by its
\* tabCount and by its decoded tab list, whatever createSession,
\* mergeSessions, splitSession, duplicateSession, updateSession and
\* importFromJSON were called with.
C39_StoredSessionsHoldATab ==
    \A id \in DOMAIN sessions :
        /\ sessions[id].tabCount >= 1
        /\ Len(getSession(id).tabs) >= 1

====
